---- MODULE Spec2Model ----
(***************************************************************************)
(* The chained-prompt orchestrator of services/token_manager.py            *)
(* (EnhancedChainedPromptGenerator) as a state machine.  One generator     *)
(* object is constructed and process_tor_chunks is invoked on it several   *)
(* times; every client call is split into its start and its return/raise   *)
(* so that the order of calls is observable.                               *)
(*                                                                         *)
(* Texts are sequences of tokens.  A token is a record [t, n]: a literal   *)
(* piece of a format string (n = 0), a formatted number (t = "num"), or a  *)
(* piece of document text named t of which the first n characters are      *)
(* kept.                                                                   *)
(*                                                                         *)
(* Beside the orchestrator the module holds the static methods of          *)
(* TokenManager (splitting a document, the character-window loops, the     *)
(* content budget of a provider), SonnetClient.generate_json of            *)
(* services/llm_providers.py, the generation and processing handlers of    *)
(* ui/wizard.py, and a caller that keeps the statistics it was handed.     *)
(* Each part has a specification of its own over the same variables.       *)
(***************************************************************************)
EXTENDS Integers, Sequences, FiniteSets, TLC

\* ------------------------------------------------------------- bounds
MaxChunks == 3
MaxRetries == 3
MaxRuns == 2

\* ------------------------------------------------------------- tokens
T(s) == [t |-> s, n |-> 0]
Num(k) == [t |-> "num", n |-> k]
Doc(name, len) == [t |-> name, n |-> len]

Min(a, b) == IF a < b THEN a ELSE b

\* "\n\n", the separator of "\n\n".join(chunk_summaries)
SEP == T("\\n\\n")

\* content[:k] of a one-token document text
Truncate(text, k) == [j \in 1..Len(text) |-> [text[j] EXCEPT !.n = Min(@, k)]]

\* chunk['content'][:800]
SummaryChars == 800

RECURSIVE Join(_)
Join(parts) ==
    IF parts = <<>> THEN <<>>
    ELSE IF Len(parts) = 1 THEN parts[1]
    ELSE parts[1] \o <<SEP>> \o Join(Tail(parts))

\* ------------------------------------------------------------- inputs
\* Well-formed chunks: content, section and tokens_estimated are present.
ChunkA == [content |-> <<Doc("c1", 300)>>, section |-> "s1", tokens_estimated |-> 75]
ChunkB == [content |-> <<Doc("c2", 1200)>>, section |-> "s2", tokens_estimated |-> 300]

\* Chunk k of two documents: A B B A B B ... and B A A B A A ...; from the
\* second chunk on a list holds both equal and different chunks.
ChunkAt(d, k) == IF (k % 3 = 1) = (d = 1) THEN ChunkA ELSE ChunkB

\* The first n chunks of either document, n = 0 .. MaxChunks.
ChunkLists == { [k \in 1..n |-> ChunkAt(d, k)] : n \in 0..MaxChunks, d \in {1, 2} }

TaskTypes == {"narrative", "budget"}

\* What a client object offers (hasattr(client, 'generate'), and whether
\* client.generate_json exists).
Clients == [hasGenerate : BOOLEAN, hasGenerateJson : BOOLEAN]

\* Exceptions a call can raise; all of them are subclasses of Exception.
RequestErrors == {"Timeout", "ConnectionError"}
Exceptions == RequestErrors \cup {"AttributeError", "CallbackError"}

\* except Exception as e
IsException(e) == e \in Exceptions

\* ------------------------------------------------------------- values
NoValue == [type |-> "none", text |-> <<>>, keys |-> {}, error |-> <<>>,
            items |-> <<>>, total |-> 0, processing_stats |-> "none"]

StrVal(tokens) == [NoValue EXCEPT !.type = "str", !.text = tokens]

\* LLMResult(content=..., raw=...)
LLMResult(tokens) == [cls |-> "LLMResult", content |-> tokens]

ErrorMarker == T("Error")

\* DeepSeekClient.generate: a result whose content is the model's text, or an
\* "Error..." text for a missing key, a non-200 status, a timeout or a
\* connection error.
GenerateReturns ==
    { LLMResult(<<T("r1")>>), LLMResult(<<ErrorMarker, T("API DeepSeek")>>) }

BudgetKeys == {"currency", "items", "summary_by_category", "total",
               "assumptions", "compliance_notes"}

\* SonnetClient.generate_json: the parsed budget, or the empty budget with an
\* "error" field.
GenerateJsonReturns ==
    { [NoValue EXCEPT !.type = "dict", !.keys = BudgetKeys,
                      !.items = <<T("item1")>>, !.total = 100],
      [NoValue EXCEPT !.type = "dict", !.keys = BudgetKeys \cup {"error"},
                      !.error = <<T("Error API Sonnet")>>] }

\* result.content if hasattr(result, 'content') else result
Unwrap(r) == IF "content" \in DOMAIN r THEN StrVal(r.content) ELSE r

\* The text of a value interpolated into an f-string.
TextOf(v) == IF v.type = "str" THEN v.text ELSE <<T("<object>")>>

\* ------------------------------------------------------------- messages
EmptyMsg(tt) == <<T("No hay chunks disponibles para procesar"), T(tt)>>
CriticalMsg(e) == <<T("Error critico en procesamiento:"), T(e)>>
FailedAfterMsg(mr, e) == <<T("Fallo despues de"), Num(mr), T("intentos:"), T(e)>>
MaxRetriesMsg == <<T("Maximo numero de reintentos alcanzado")>>
NoExtractMsg == <<T("No se pudo extraer informacion de ningun chunk")>>
SynthesisMsg(e) == <<T("Error en sintesis final:"), T(e)>>

\* _get_error_result: a string for "narrative", the empty budget with an
\* "error" field for anything else.  The dict holds a reference to the
\* generator's own stats dict, not a copy.
get_error_result(tt, error_message) ==
    IF tt = "narrative"
    THEN StrVal(<<ErrorMarker, T("generando narrativa:")>> \o error_message
                \o <<T("No se pudo completar la generacion automatica")>>)
    ELSE [NoValue EXCEPT !.type = "dict",
                         !.keys = BudgetKeys \cup {"error", "processing_stats",
                                                   "generated_at", "error_type"},
                         !.error = error_message,
                         !.items = <<>>,
                         !.total = 0,
                         !.processing_stats = "self.processing_stats"]

\* The summaries _extract_chunk_information returns, and the entry the
\* per-chunk handler of the extraction loop records.
AnalysisSummary(chunk, r) == <<T("ANALISIS -"), T(chunk.section)>> \o TextOf(Unwrap(r))
FallbackSummary_Whole(chunk) ==
    <<T("SECCION -"), T(chunk.section)>> \o chunk.content \o <<T("...")>>
FallbackSummary(chunk) ==
    <<T("SECCION -"), T(chunk.section)>> \o Truncate(chunk.content, SummaryChars)
    \o <<T("...")>>
PlaceholderSummary_None(chunk) == <<>>
PlaceholderSummary(chunk) == <<T("ERROR -"), T(chunk.section), T("No se pudo procesar")>>
ChunkErrorEntry(chunk, e) == <<T("Error en chunk"), T(chunk.section), T(e)>>

\* ------------------------------------------------------------- document text
\* The text handed to TokenManager is a sequence of stretches [t, n, w]: n
\* characters holding w words of equal length with single spaces between
\* them.  A stretch neither begins nor ends with whitespace; whitespace is a
\* stretch of its own (w = 0), and two stretches of words are always
\* separated by one.  The kinds of stretches:
\*   "txt"  plain words                  "sent" words, the last ending in "."
\*   "hdr"  a line beginning with a keyword of major_section_patterns
\*   "sub"  a line beginning with a marker of subsection_patterns
\*   "sym"  characters that are neither alphanumeric nor whitespace
\*   "err"  the word "Error:"
\*   "sp"   spaces      "nl"  "\n"       "par"  "\n\n"
Txt(kind, words, letters) ==
    [t |-> kind, n |-> words * letters + (words - 1), w |-> words]
Ws(kind, chars) == [t |-> kind, n |-> chars, w |-> 0]

SP == Ws("sp", 1)
NL == Ws("nl", 1)
PAR == Ws("par", 2)

\* str.isspace, for the characters of a stretch
IsSpace(p) == p.t \in {"sp", "nl", "par"}

Max(a, b) == IF a > b THEN a ELSE b

\* len(text)
RECURSIVE Chars(_)
Chars(text) == IF text = <<>> THEN 0 ELSE Head(text).n + Chars(Tail(text))

\* len(text.split())
RECURSIVE Words(_)
Words(text) == IF text = <<>> THEN 0 ELSE Head(text).w + Words(Tail(text))

\* TokenLimits
AVG_CHARS_PER_TOKEN == 4
MIN_CHUNK_SIZE == 500

\* estimate_tokens: int(max(words * 1.3, chars / 4))
estimate_tokens(text) ==
    IF text = <<>> THEN 0
    ELSE Max((13 * Words(text)) \div 10, Chars(text) \div AVG_CHARS_PER_TOKEN)

\* text.strip()
RECURSIVE lstrip(_)
lstrip(text) ==
    IF text # <<>> /\ IsSpace(Head(text)) THEN lstrip(Tail(text)) ELSE text
RECURSIVE rstrip(_)
rstrip(text) ==
    IF text # <<>> /\ IsSpace(text[Len(text)])
    THEN rstrip(SubSeq(text, 1, Len(text) - 1)) ELSE text
strip(text) == rstrip(lstrip(text))

\* The numbers of a finite set in increasing order.
RECURSIVE Sorted(_)
Sorted(S) ==
    IF S = {} THEN <<>>
    ELSE LET m == CHOOSE x \in S : \A y \in S : x <= y
         IN  <<m>> \o Sorted(S \ {m})

\* text.split(sep): the pieces between the separators at the indices seps
Segments(text, seps) ==
    LET b == <<0>> \o Sorted(seps) \o <<Len(text) + 1>>
    IN  [k \in 1..(Len(b) - 1) |-> SubSeq(text, b[k] + 1, b[k + 1] - 1)]

\* [p.strip() for p in content.split('\n\n') if p.strip()]
Paragraphs(content) ==
    LET parts == Segments(content, {k \in 1..Len(content) : content[k] = PAR})
    IN  SelectSeq([k \in 1..Len(parts) |-> strip(parts[k])], LAMBDA p : p # <<>>)

\* re.split(r'(?<=[.!?])\s+', text): whitespace that follows the end of a
\* sentence separates, and is not part of either side
Sentences(text) ==
    Segments(text, {k \in 2..Len(text) : IsSpace(text[k]) /\ text[k - 1].t = "sent"})

\* _create_overlap: whole sentences from the end of content, as many as fit
\* into overlap_tokens, joined with " " and followed by "\n\n"
RECURSIVE OverlapLoop(_, _, _, _, _)
OverlapLoop(sentences, k, overlap_content, current_tokens, overlap_tokens) ==
    IF k = 0 THEN overlap_content
    ELSE LET sentence == sentences[k]
             sentence_tokens == estimate_tokens(sentence)
         IN  IF current_tokens + sentence_tokens <= overlap_tokens
             THEN OverlapLoop(sentences, k - 1,
                      IF overlap_content # <<>>
                      THEN sentence \o <<SP>> \o overlap_content ELSE sentence,
                      current_tokens + sentence_tokens, overlap_tokens)
             ELSE overlap_content

create_overlap(content, overlap_tokens) ==
    IF overlap_tokens <= 0 THEN <<>>
    ELSE LET sentences == Sentences(content)
             overlap_content == OverlapLoop(sentences, Len(sentences), <<>>, 0,
                                            overlap_tokens)
         IN  IF overlap_content # <<>> THEN overlap_content \o <<PAR>> ELSE <<>>

\* ------------------------------------------------------------- chunks
\* A chunk dict.  `keys` holds the keys the dict has; a field whose key is
\* missing holds the default that chunk.get(key, default) returns.
Section(name, suffix, k) == [name |-> name, suffix |-> suffix, k |-> k]

NoChunk == [content |-> <<>>, section |-> Section("", "", 0), index |-> 0,
            tokens_estimated |-> 0, chunk_id |-> [md5 |-> <<>>],
            word_count |-> 0, char_count |-> 0, keys |-> {}]

\* _generate_chunk_id: hashlib.md5(content.encode('utf-8')).hexdigest()[:8],
\* a function of the characters of content (collisions are left out)
generate_chunk_id(content) == [md5 |-> content]

\* {"content": ..., "section": ..., "tokens_estimated": ...}
PartChunk(content, section, tokens) ==
    [NoChunk EXCEPT !.content = content, !.section = section,
                    !.tokens_estimated = tokens,
                    !.keys = {"content", "section", "tokens_estimated"}]

\* The chunk of the quick check of intelligent_chunk_tor.
WholeDocument_Untrimmed(tor_text, estimated_tokens) ==
    [NoChunk EXCEPT !.content = tor_text,
                    !.section = Section("complete", "", 0),
                    !.index = 0,
                    !.tokens_estimated = estimated_tokens,
                    !.chunk_id = generate_chunk_id(tor_text),
                    !.keys = {"content", "section", "index", "tokens_estimated",
                              "chunk_id"}]
WholeDocument(tor_text, estimated_tokens) ==
    [NoChunk EXCEPT !.content = strip(tor_text),
                    !.section = Section("complete", "", 0),
                    !.index = 0,
                    !.tokens_estimated = estimated_tokens,
                    !.chunk_id = generate_chunk_id(tor_text),
                    !.keys = {"content", "section", "index", "tokens_estimated",
                              "chunk_id"}]

\* ------------------------------------------------------------- sections
\* Characters before stretch k.
Offset(text, k) == Chars(SubSeq(text, 1, k - 1))

\* (?:^|\n)\s* : stretch k begins a line
AtLineStart(text, k) ==
    \/ k = 1
    \/ text[k - 1].t \in {"nl", "par"}
    \/ k = 2 /\ IsSpace(text[1])

\* match.start() of a pattern that matches at stretch k
MatchStart(text, k) ==
    IF k = 1 \/ (k = 2 /\ IsSpace(text[1])) THEN 0 ELSE Offset(text, k - 1)

\* Minimum 50 chars between sections
MinBreakDistance == 50

\* unique_breaks: a break is kept when it is the first or more than 50
\* characters after the last one kept
RECURSIVE UniqueBreaks(_, _, _, _)
UniqueBreaks(content, section_breaks, j, unique_breaks) ==
    IF j > Len(section_breaks) THEN unique_breaks
    ELSE IF j = 1 \/ MatchStart(content, section_breaks[j])
                     - MatchStart(content, unique_breaks[Len(unique_breaks)])
                     > MinBreakDistance
         THEN UniqueBreaks(content, section_breaks, j + 1,
                           Append(unique_breaks, section_breaks[j]))
         ELSE UniqueBreaks(content, section_breaks, j + 1, unique_breaks)

\* content[start_pos:end_pos].strip() for the breaks at the stretches `breaks`
SectionContent(content, breaks, j) ==
    strip(SubSeq(content, breaks[j],
                 IF j + 1 <= Len(breaks) THEN breaks[j + 1] - 1 ELSE Len(content)))

\* _split_by_major_sections
split_by_major_sections(content) ==
    LET section_breaks ==
            Sorted({k \in 1..Len(content) :
                       content[k].t = "hdr" /\ AtLineStart(content, k)})
        unique_breaks == UniqueBreaks(content, section_breaks, 1, <<>>)
        sections ==
            [j \in 1..Len(unique_breaks) |->
                [NoChunk EXCEPT
                    !.content = SectionContent(content, unique_breaks, j),
                    !.section = Section("major", "", unique_breaks[j]),
                    !.keys = {"content", "section", "start_pos", "end_pos"}]]
    IN  IF Len(unique_breaks) < 2 THEN <<>>
        ELSE SelectSeq(sections, LAMBDA c : Chars(c.content) > MIN_CHUNK_SIZE)

\* _split_by_subsections
split_by_subsections(content) ==
    LET breaks ==
            Sorted({k \in 1..Len(content) :
                       content[k].t = "sub" /\ AtLineStart(content, k)})
        sections ==
            [j \in 1..Len(breaks) |->
                [NoChunk EXCEPT
                    !.content = SectionContent(content, breaks, j),
                    !.section = Section("subsection", "", j - 1),
                    !.keys = {"content", "section"}]]
    IN  IF Len(breaks) < 2 THEN <<>>
        ELSE SelectSeq(sections, LAMBDA c : Chars(c.content) > MIN_CHUNK_SIZE)

\* ------------------------------------------------------------- windows
\* Letters of one word of a stretch of words.
WordLen(p) == (p.n - (p.w - 1)) \div p.w

\* The stretch that holds the character at (0-based) position pos.
StretchAt(text, pos) ==
    CHOOSE k \in 1..Len(text) : Offset(text, k) <= pos /\ pos < Offset(text, k) + text[k].n

\* Character o of stretch p is a space.
SpaceInStretch(p, o) == IsSpace(p) \/ (o % (WordLen(p) + 1)) = WordLen(p)

\* text[pos].isspace()
IsSpaceAt(text, pos) ==
    LET k == StretchAt(text, pos)
    IN  SpaceInStretch(text[k], pos - Offset(text, k))

\* Characters a .. b-1 of the stretch p without the spaces at either end:
\* what p contributes to text[start:end].strip()
RECURSIVE CutStretch(_, _, _)
CutStretch(p, a, b) ==
    IF a >= b THEN <<>>
    ELSE IF IsSpace(p)
         THEN <<Ws(IF p.t = "par" /\ b - a < p.n THEN "nl" ELSE p.t, b - a)>>
    ELSE IF SpaceInStretch(p, a) THEN CutStretch(p, a + 1, b)
    ELSE IF SpaceInStretch(p, b - 1) THEN CutStretch(p, a, b - 1)
    ELSE LET step == WordLen(p) + 1
             kind == IF a = 0 /\ b = p.n THEN p.t
                     ELSE IF b = p.n /\ p.t = "sent" THEN "sent"
                     ELSE IF a = 0 /\ p.t \in {"hdr", "sub", "err"} THEN p.t
                     ELSE IF p.t = "sym" THEN "sym"
                     ELSE "txt"
         IN  <<[t |-> kind, n |-> b - a,
                w |-> ((b - 1) \div step) - (a \div step) + 1]>>

\* text[start:end].strip()
RECURSIVE SliceFrom(_, _, _, _)
SliceFrom(text, k, start, end) ==
    IF k > Len(text) THEN <<>>
    ELSE LET off == Offset(text, k)
         IN  CutStretch(text[k], Max(start, off) - off,
                        Min(end, off + text[k].n) - off)
             \o SliceFrom(text, k + 1, start, end)
StripSlice(text, start, end) == strip(SliceFrom(text, 1, start, end))

\* range(end, max(start, end - 100), -1)
WordBoundaryLookback == 100

\* The end of the window that starts at `start`: start + max_chars, moved
\* back to the nearest whitespace within the lookback when the window does
\* not reach the end of the text.
WindowEnd(text, start, max_chars) ==
    LET end == Min(start + max_chars, Chars(text))
        boundaries == IF end < Chars(text)
                      THEN {pos \in (Max(start, end - WordBoundaryLookback) + 1)..end :
                               IsSpaceAt(text, pos)}
                      ELSE {}
    IN  IF boundaries # {}
        THEN CHOOSE pos \in boundaries : \A q \in boundaries : q <= pos
        ELSE end

\* _character_chunk_text
RECURSIVE CharacterTextLoop(_, _, _, _)
CharacterTextLoop(text, start, chunks, max_chars) ==
    IF start >= Chars(text) THEN chunks
    ELSE LET end == WindowEnd(text, start, max_chars)
             chunk == StripSlice(text, start, end)
             kept == IF chunk # <<>> THEN Append(chunks, chunk) ELSE chunks
         IN  IF end >= Chars(text) THEN kept
             ELSE CharacterTextLoop(text, end, kept, max_chars)

character_chunk_text(text, max_tokens) ==
    CharacterTextLoop(text, 0, <<>>, max_tokens * AVG_CHARS_PER_TOKEN)

\* _character_chunk
RECURSIVE CharacterLoop(_, _, _, _, _)
CharacterLoop(content, start, chunks, max_chars, overlap_chars) ==
    IF start >= Chars(content) THEN chunks
    ELSE LET end == WindowEnd(content, start, max_chars)
             chunk_content == StripSlice(content, start, end)
             kept == IF chunk_content # <<>>
                     THEN Append(chunks,
                                 PartChunk(chunk_content,
                                           Section("char_chunk", "", Len(chunks)),
                                           estimate_tokens(chunk_content)))
                     ELSE chunks
             next == Max(end - overlap_chars, start + 1)
         IN  IF next >= end THEN kept
             ELSE CharacterLoop(content, next, kept, max_chars, overlap_chars)

character_chunk(content, max_tokens, overlap_tokens) ==
    CharacterLoop(content, 0, <<>>, max_tokens * AVG_CHARS_PER_TOKEN,
                  overlap_tokens * AVG_CHARS_PER_TOKEN)

\* ------------------------------------------------------------- splitting
\* chunks.append({...}) if current_chunk
Flush(chunks, current_chunk, current_tokens, name, suffix) ==
    IF current_chunk # <<>>
    THEN Append(chunks, PartChunk(strip(current_chunk),
                                  Section(name, suffix, Len(chunks)),
                                  current_tokens))
    ELSE chunks

\* _split_large_paragraph: the loop over the sentences
RECURSIVE SentenceLoop(_, _, _, _, _, _, _)
SentenceLoop(sentences, j, chunks, current_chunk, current_tokens, max_tokens, name) ==
    IF j > Len(sentences)
    THEN Flush(chunks, current_chunk, current_tokens, name, "sentence")
    ELSE LET sentence == sentences[j]
             sentence_tokens == estimate_tokens(sentence)
         IN  IF current_tokens + sentence_tokens <= max_tokens
             THEN SentenceLoop(sentences, j + 1, chunks,
                      IF current_chunk # <<>>
                      THEN current_chunk \o <<SP>> \o sentence ELSE sentence,
                      current_tokens + sentence_tokens, max_tokens, name)
             ELSE LET saved == Flush(chunks, current_chunk, current_tokens,
                                     name, "sentence")
                  IN  IF sentence_tokens > max_tokens
                      THEN LET char_chunks == character_chunk_text(sentence, max_tokens)
                           IN  SentenceLoop(sentences, j + 1,
                                   saved \o [k \in 1..Len(char_chunks) |->
                                               PartChunk(char_chunks[k],
                                                         Section(name, "char", k - 1),
                                                         estimate_tokens(char_chunks[k]))],
                                   <<>>, 0, max_tokens, name)
                      ELSE SentenceLoop(sentences, j + 1, saved, sentence,
                                        sentence_tokens, max_tokens, name)

split_large_paragraph(paragraph, max_tokens, section_name) ==
    SentenceLoop(Sentences(paragraph), 1, <<>>, <<>>, 0, max_tokens, section_name)

\* _split_large_section: the loop over the paragraphs
RECURSIVE SectionLoop(_, _, _, _, _, _, _)
SectionLoop(paragraphs, j, chunks, current_chunk, current_tokens, max_tokens, name) ==
    IF j > Len(paragraphs)
    THEN Flush(chunks, current_chunk, current_tokens, name, "part")
    ELSE LET para == paragraphs[j]
             para_tokens == estimate_tokens(para)
         IN  IF para_tokens > max_tokens
             THEN SectionLoop(paragraphs, j + 1,
                      Flush(chunks, current_chunk, current_tokens, name, "part")
                      \o split_large_paragraph(para, max_tokens, name),
                      <<>>, 0, max_tokens, name)
             ELSE IF current_tokens + para_tokens <= max_tokens
             THEN SectionLoop(paragraphs, j + 1, chunks,
                      IF current_chunk # <<>>
                      THEN current_chunk \o <<PAR>> \o para ELSE para,
                      current_tokens + para_tokens, max_tokens, name)
             ELSE SectionLoop(paragraphs, j + 1,
                      Flush(chunks, current_chunk, current_tokens, name, "part"),
                      para, para_tokens, max_tokens, name)

split_large_section(section, max_tokens, overlap_tokens) ==
    SectionLoop(Paragraphs(section.content), 1, <<>>, <<>>, 0, max_tokens,
                section.section.name)

\* _paragraph_chunk: the loop over the paragraphs
RECURSIVE ParagraphLoop(_, _, _, _, _, _)
ParagraphLoop(paragraphs, j, chunks, current_chunk, current_tokens, max_tokens) ==
    IF j > Len(paragraphs)
    THEN Flush(chunks, current_chunk, current_tokens, "paragraph_chunk", "")
    ELSE LET para == paragraphs[j]
             para_tokens == estimate_tokens(para)
         IN  IF current_tokens + para_tokens <= max_tokens
             THEN ParagraphLoop(paragraphs, j + 1, chunks,
                      IF current_chunk # <<>>
                      THEN current_chunk \o <<PAR>> \o para ELSE para,
                      current_tokens + para_tokens, max_tokens)
             ELSE ParagraphLoop(paragraphs, j + 1,
                      Flush(chunks, current_chunk, current_tokens,
                            "paragraph_chunk", ""),
                      para, para_tokens, max_tokens)

paragraph_chunk(content, max_tokens, overlap_tokens) ==
    ParagraphLoop(Paragraphs(content), 1, <<>>, <<>>, 0, max_tokens)

\* _hierarchical_chunk: the loop over the sections
RECURSIVE HierarchicalLoop(_, _, _, _, _, _)
HierarchicalLoop(sections, j, chunks, section_overlap, max_tokens, overlap_tokens) ==
    IF j > Len(sections) THEN chunks
    ELSE LET section == sections[j]
             section_tokens == estimate_tokens(section.content)
         IN  IF section_tokens <= max_tokens
             THEN LET chunk_content == section_overlap \o section.content
                  IN  HierarchicalLoop(sections, j + 1,
                          IF estimate_tokens(chunk_content) <= max_tokens
                          THEN Append(chunks,
                                  [NoChunk EXCEPT
                                      !.content = strip(chunk_content),
                                      !.section = section.section,
                                      !.index = j - 1,
                                      !.tokens_estimated = estimate_tokens(chunk_content),
                                      !.keys = {"content", "section", "index",
                                                "tokens_estimated"}])
                          ELSE Append(chunks, section),
                          create_overlap(section.content, overlap_tokens),
                          max_tokens, overlap_tokens)
             ELSE LET sub_chunks == split_large_section(section, max_tokens,
                                                        overlap_tokens)
                  IN  HierarchicalLoop(sections, j + 1, chunks \o sub_chunks,
                          IF sub_chunks # <<>>
                          THEN create_overlap(sub_chunks[Len(sub_chunks)].content,
                                              overlap_tokens)
                          ELSE section_overlap,
                          max_tokens, overlap_tokens)

hierarchical_chunk(content, max_tokens, overlap_tokens) ==
    LET major == split_by_major_sections(content)
        sections == IF Len(major) <= 1 THEN split_by_subsections(content) ELSE major
    IN  HierarchicalLoop(sections, 1, <<>>, <<>>, max_tokens, overlap_tokens)

\* ------------------------------------------------------------- validation
MinContentChars == 50

\* re.search(r'[A-Za-z0-9]', content)
HasAlnum(content) ==
    \E k \in 1..Len(content) : ~IsSpace(content[k]) /\ content[k].t # "sym"

\* _validate_chunk
validate_chunk(chunk) ==
    /\ ~(Chars(strip(chunk.content)) < MinContentChars)
    /\ ~(chunk.tokens_estimated <= 0)
    /\ HasAlnum(chunk.content)

\* _post_process_chunks
post_process_chunks(chunks) ==
    SelectSeq([k \in 1..Len(chunks) |->
                  [chunks[k] EXCEPT
                      !.index = k - 1,
                      !.chunk_id = generate_chunk_id(chunks[k].content),
                      !.word_count = Words(chunks[k].content),
                      !.char_count = Chars(chunks[k].content),
                      !.keys = @ \cup {"index", "chunk_id", "word_count",
                                       "char_count", "processed_at"}]],
              validate_chunk)

\* if not tor_content or not tor_content.strip()
IsBlank_EmptyOnly(tor_text) == tor_text = <<>>
IsBlank(tor_text) == tor_text = <<>> \/ strip(tor_text) = <<>>

\* intelligent_chunk_tor after the quick check: the fallback chain
split_chunks(tor_text, max_tokens, overlap_tokens) ==
    LET hierarchical == hierarchical_chunk(tor_text, max_tokens, overlap_tokens)
        paragraph == IF hierarchical = <<>>
                     THEN paragraph_chunk(tor_text, max_tokens, overlap_tokens)
                     ELSE hierarchical
    IN  IF paragraph = <<>>
        THEN character_chunk(tor_text, max_tokens, overlap_tokens)
        ELSE paragraph

\* ------------------------------------------------------------- documents
\* The blocks documents are made of; the blocks of a document are separated
\* by "\n\n".
MaxBlocks == 3

Blocks ==
    { <<Txt("txt", 1, 2)>>,                                  \* "Hi"
      <<Txt("sent", 40, 5)>>,                                \* a paragraph
      <<Txt("sym", 1, 60)>>,                                 \* a rule "-----"
      <<Txt("err", 1, 6), SP, Txt("sent", 10, 5)>>,          \* "Error: ..."
      <<Txt("hdr", 1, 10), NL, Txt("sent", 20, 5)>>,         \* a short section
      <<Txt("hdr", 1, 10), NL, Txt("sent", 90, 5)>>,         \* a section
      <<Txt("hdr", 1, 10), NL, Txt("sent", 60, 5), PAR,
        Txt("sent", 60, 5)>>,                                \* with two paragraphs
      <<Txt("hdr", 1, 10), NL, Txt("txt", 700, 1)>>,         \* one long sentence
      <<Txt("sub", 2, 4), NL, Txt("sent", 90, 5)>> }         \* a subsection

RECURSIVE JoinBlocks(_)
JoinBlocks(bs) ==
    IF bs = <<>> THEN <<>>
    ELSE IF Len(bs) = 1 THEN bs[1]
    ELSE bs[1] \o <<PAR>> \o JoinBlocks(Tail(bs))

\* Whitespace around a document.
Margins == { [lead |-> <<>>, trail |-> <<>>], [lead |-> <<NL>>, trail |-> <<SP>>] }

BlankDocuments == { <<>>, <<SP>>, <<NL>>, <<PAR>>, <<SP, PAR, SP>> }

BlockLists == UNION { [1..n -> Blocks] : n \in 1..MaxBlocks }

\* One paragraph without any structure: many words, one long sentence, one
\* long word.
LongParagraphs ==
    { <<Txt("txt", 400, 5)>>, <<Txt("sent", 400, 5)>>, <<Txt("txt", 1, 900)>> }

Documents ==
    BlankDocuments \cup LongParagraphs \cup
    { m.lead \o JoinBlocks(bs) \o m.trail : bs \in BlockLists, m \in Margins }

MaxTokensChoices == {150, 500}
OverlapChoices == {0, 25}

\* ------------------------------------------------------------- state
VARIABLES
    client,             \* self.client
    processing_stats,   \* self.processing_stats
    pc,                 \* position of the worker inside process_tor_chunks
    chunks, task_type, max_retries,   \* arguments of the invocation
    attempt,            \* loop variable of the single-chunk retry loop
    i,                  \* loop variable of the extraction loop (1-based)
    chunk_summaries, consolidated_info,
    result,             \* the value returned to the caller
    escaped,            \* the exception that left process_tor_chunks
    calls,              \* client calls of this invocation, in order
    sleeps,             \* time.sleep arguments of this invocation, in order
    progress,           \* progress_callback messages of this invocation
    runs,               \* number of invocations so far
    cbRaised,           \* the progress callback raised in this invocation
    entry_stats,        \* processing_stats as the invocation found it
    processing,         \* the wizard's self._processing
    tor_content, max_tokens_per_chunk, overlap_tokens,
                        \* arguments of intelligent_chunk_tor
    cpc,                \* position inside intelligent_chunk_tor
    chunker_chunks,     \* its local variable chunks
    tor_chunks,         \* the list it returned
    provider, prompt_overhead,   \* arguments of get_max_content_tokens
    lpc,                \* position inside get_max_content_tokens
    max_content_tokens, \* the number it returned
    api_key,            \* SonnetClient.api_key is set
    http_outcome,       \* what requests.post and resp.json() do
    response_text,      \* the text blocks of the response, joined
    jpc,                \* position inside SonnetClient.generate_json
    json_result,        \* the value it returned
    generate_button, abort_button,   \* the state of the wizard's buttons
    tor_ok,             \* state.validate_tor() holds
    threads,            \* the threads the wizard started, in order
    current_thread,     \* self._current_thread (an index of threads, 0: None)
    ui_queue,           \* the callbacks passed to master.after(0, ...), pending
    snapshot,           \* the stats dict the caller of the generator holds
    caller_notes,       \* appends the caller made to the errors of that dict
    window_start,       \* start, in the loop of a character-window helper
    window_ends,        \* end of the window of each chunk the loop appended
    window_passes       \* evaluations of the loop condition so far

\* The variables of the splitter and those of the orchestrator and wizard.
chunker_vars == <<tor_content, max_tokens_per_chunk, overlap_tokens, cpc,
                  chunker_chunks, tor_chunks>>

limit_vars == <<provider, prompt_overhead, lpc, max_content_tokens>>

\* The variables of SonnetClient.generate_json.
sonnet_vars == <<api_key, http_outcome, response_text, jpc, json_result>>

\* The variables of ProposalWizard besides self._processing.
wizard_vars == <<generate_button, abort_button, tor_ok, threads, current_thread,
                 ui_queue>>

\* The loop variables of _character_chunk and _character_chunk_text.
window_vars == <<window_start, window_ends, window_passes>>

\* The variables of the caller of the generator.
caller_vars == <<snapshot, caller_notes>>

\* The variables outside TokenManager and the generator.
extra_vars == <<sonnet_vars, wizard_vars, caller_vars, window_vars>>

\* The variables of the static methods of TokenManager and of the clients.
static_vars == <<chunker_vars, limit_vars, extra_vars>>

\* No call of intelligent_chunk_tor / of get_max_content_tokens is modelled.
ChunkerUnused ==
    /\ tor_content = <<>> /\ max_tokens_per_chunk = 0 /\ overlap_tokens = 0
    /\ cpc = "unused" /\ chunker_chunks = <<>> /\ tor_chunks = <<>>
LimitsUnused ==
    /\ provider = [letters |-> "", caps |-> {}] /\ prompt_overhead = 0
    /\ lpc = "unused" /\ max_content_tokens = 0

\* No call of SonnetClient.generate_json is modelled.
SonnetUnused ==
    /\ api_key = FALSE /\ http_outcome = "none" /\ response_text = <<>>
    /\ jpc = "unused" /\ json_result = [type |-> "none", error |-> FALSE]

\* No wizard is modelled.
WizardUnused ==
    /\ generate_button = "disabled" /\ abort_button = "disabled"
    /\ tor_ok = FALSE /\ threads = <<>> /\ current_thread = 0 /\ ui_queue = <<>>

\* The caller holds no stats.
NoSnapshot ==
    [kind |-> "none", chunks_processed |-> 0, total_tokens_processed |-> 0,
     processing_time |-> 0]
CallerUnused == snapshot = NoSnapshot /\ caller_notes = 0

\* No character-window loop is modelled.
WindowUnused == window_start = 0 /\ window_ends = <<>> /\ window_passes = 0

ExtraUnused == SonnetUnused /\ WizardUnused /\ CallerUnused /\ WindowUnused

vars == <<static_vars, processing, client, processing_stats, pc, chunks, task_type, max_retries, attempt,
          i, chunk_summaries, consolidated_info, result, escaped, calls, sleeps,
          progress, runs, cbRaised, entry_stats>>

\* The progress callback returns or raises.
CallbackOutcomes == {"ok", "raise"}

\* One invocation of the progress callback: the message, its numbers, and
\* whether the callback raised.
P(msg, a, b, cb) == [msg |-> msg, a |-> a, b |-> b, raised |-> (cb = "raise")]

Call(method, phase, idx, nargs, prompt) ==
    [method |-> method, phase |-> phase, idx |-> idx, nargs |-> nargs,
     prompt |-> prompt, status |-> "inflight", value |-> NoValue, exc |-> "none"]

\* The call in flight (the last of the log) returned `value` / raised `e`.
Returned(cs, value) ==
    [cs EXCEPT ![Len(cs)].status = "returned", ![Len(cs)].value = value]
Raised(cs, e) == [cs EXCEPT ![Len(cs)].status = "raised", ![Len(cs)].exc = e]

\* narrative -> client.generate, anything else -> client.generate_json
TargetMethod(tt) == IF tt = "narrative" THEN "generate" ELSE "generate_json"

HasMethod(c, m) == IF m = "generate" THEN c.hasGenerate ELSE c.hasGenerateJson

Returns(m) == IF m = "generate" THEN GenerateReturns ELSE GenerateJsonReturns

\* Seconds between start_time and the stats update.  Time passes in
\* time.sleep only: a client call and a callback take no time.
RECURSIVE Elapsed(_)
Elapsed(waits) == IF waits = <<>> THEN 0 ELSE Head(waits) + Elapsed(Tail(waits))

RECURSIVE SumTokens(_)
SumTokens(cs) == IF cs = <<>> THEN 0 ELSE Head(cs).tokens_estimated + SumTokens(Tail(cs))

\* __init__
Init ==
    /\ client \in Clients
    /\ processing_stats = [chunks_processed |-> 0, total_tokens_processed |-> 0,
                           processing_time |-> 0, errors |-> <<>>]
    /\ pc = "idle"
    /\ chunks = <<>> /\ task_type = "narrative" /\ max_retries = 0
    /\ attempt = 0 /\ i = 0
    /\ chunk_summaries = <<>> /\ consolidated_info = <<>>
    /\ result = NoValue /\ escaped = "none"
    /\ calls = <<>> /\ sleeps = <<>> /\ progress = <<>>
    /\ runs = 0 /\ cbRaised = FALSE
    /\ entry_stats = processing_stats
    /\ processing = TRUE
    /\ ChunkerUnused
    /\ LimitsUnused
    /\ ExtraUnused

\* ------------------------------------------------------------- handlers
\* What the loop keeps of a summary: if summary: chunk_summaries.append(summary)
KeepSummary_Dedup(summaries, summary) ==
    IF summary # <<>> /\ ~(\E k \in 1..Len(summaries) : summaries[k] = summary)
    THEN Append(summaries, summary) ELSE summaries
KeepSummary(summaries, summary) ==
    IF summary # <<>> THEN Append(summaries, summary) ELSE summaries

\* The except clauses; each is "except Exception".
CatchTop_RequestErrorsOnly(e) == e \in RequestErrors
CatchTop(e) == IsException(e)
CatchSingle(e) == IsException(e)
CatchExtract(e) == IsException(e)
CatchChunk(e) == IsException(e)
CatchSynthesis(e) == IsException(e)

\* if not chunks
NoChunks_Never(ch) == FALSE
NoChunks(ch) == ch = <<>>

\* except Exception of process_tor_chunks, reached with the stats as `stats`
TopExcept(e, stats) ==
    IF CatchTop(e)
    THEN /\ processing_stats' = [stats EXCEPT !.errors = Append(@, CriticalMsg(e))]
         /\ result' = get_error_result(task_type, CriticalMsg(e))
         /\ pc' = "done"
         /\ escaped' = "none"
    ELSE /\ processing_stats' = stats
         /\ result' = NoValue
         /\ pc' = "raised"
         /\ escaped' = e

\* if attempt == max_retries - 1
LastAttempt_OffByOne(a, mr) == a = mr
LastAttempt(a, mr) == a = mr - 1

\* time.sleep(2 ** attempt)
Backoff_Linear(a) == 2 * a
Backoff(a) == 2 ^ a

\* except Exception of the retry loop
SingleExcept(e) ==
    IF CatchSingle(e)
    THEN /\ UNCHANGED <<processing_stats, escaped>>
         /\ IF LastAttempt(attempt, max_retries)
            THEN /\ result' = get_error_result(task_type, FailedAfterMsg(max_retries, e))
                 /\ pc' = "update_stats"
                 /\ UNCHANGED <<attempt, sleeps>>
            ELSE /\ sleeps' = Append(sleeps, Backoff(attempt))
                 /\ attempt' = attempt + 1
                 /\ pc' = "single_loop"
                 /\ UNCHANGED result
    ELSE /\ TopExcept(e, processing_stats)
         /\ UNCHANGED <<attempt, sleeps>>

\* except Exception of the extraction loop body
ChunkExcept(e) ==
    IF CatchChunk(e)
    THEN /\ chunk_summaries' = Append(chunk_summaries, ChunkErrorEntry(chunks[i], e))
         /\ i' = i + 1
         /\ pc' = "extract_loop"
         /\ UNCHANGED <<processing_stats, result, escaped>>
    ELSE /\ TopExcept(e, processing_stats)
         /\ UNCHANGED <<chunk_summaries, i>>

\* except Exception of _extract_chunk_information
ExtractExcept(e) ==
    IF CatchExtract(e)
    THEN /\ chunk_summaries' =
               KeepSummary(chunk_summaries, PlaceholderSummary(chunks[i]))
         /\ i' = i + 1
         /\ pc' = "extract_loop"
         /\ UNCHANGED <<processing_stats, result, escaped>>
    ELSE ChunkExcept(e)

\* except Exception of the synthesis phase
SynthesisExcept(e) ==
    IF CatchSynthesis(e)
    THEN /\ result' = get_error_result(task_type, SynthesisMsg(e))
         /\ pc' = "update_stats"
         /\ UNCHANGED <<processing_stats, escaped>>
    ELSE TopExcept(e, processing_stats)

\* ------------------------------------------------------------- prompts
\* _build_enhanced_narrative_prompt / _build_enhanced_budget_prompt
BuildPrompt(tt, content, is_consolidated) ==
    [kind |-> IF tt = "narrative" THEN "narrative" ELSE "budget",
     is_consolidated |-> is_consolidated, content |-> content]

\* extraction_prompt of _extract_chunk_information
ExtractionPrompt(chunk, tt) ==
    [kind |-> "extraction", is_consolidated |-> FALSE,
     content |-> <<T(chunk.section)>> \o chunk.content]

\* Positional arguments of the call: generate(prompt, self.progress_callback),
\* generate_json(prompt, schema, self.progress_callback).
TargetArgs(tt) == IF tt = "narrative" THEN 2 ELSE 3

\* ------------------------------------------------------------- actions
\* process_tor_chunks, from its entry to the try statement
process_tor_chunks(ch, tt, mr) ==
    /\ pc = "idle"
    /\ runs' = runs + 1
    /\ chunks' = ch /\ task_type' = tt /\ max_retries' = mr
    /\ attempt' = 0 /\ i' = 0
    /\ chunk_summaries' = <<>> /\ consolidated_info' = <<>>
    /\ calls' = <<>> /\ sleeps' = <<>> /\ progress' = <<>>
    /\ cbRaised' = FALSE /\ escaped' = "none"
    /\ entry_stats' = processing_stats
    /\ IF NoChunks(ch)
       THEN /\ processing_stats' =
                  [processing_stats EXCEPT !.errors = Append(@, EmptyMsg(tt))]
            /\ result' = get_error_result(tt, EmptyMsg(tt))
            /\ pc' = "done"
       ELSE /\ result' = NoValue
            /\ pc' = "try"
            /\ UNCHANGED processing_stats
    /\ UNCHANGED <<static_vars, processing, client>>

\* the first progress message and the choice of the path
dispatch ==
    /\ pc = "try"
    /\ \E cb \in CallbackOutcomes :
        /\ progress' = Append(progress, P("Procesando chunk(s)", Len(chunks), 0, cb))
        /\ cbRaised' = (cbRaised \/ cb = "raise")
        /\ IF cb = "raise"
           THEN TopExcept("CallbackError", processing_stats)
           ELSE /\ pc' = IF Len(chunks) = 1 THEN "single_loop" ELSE "multi_start"
                /\ UNCHANGED <<processing_stats, result, escaped>>
    /\ UNCHANGED <<static_vars, processing, client, chunks, task_type, max_retries, attempt, i,
                   chunk_summaries, consolidated_info, calls, sleeps, runs,
                   entry_stats>>

\* _process_single_chunk_with_retries: one pass of the loop up to the call
single_attempt ==
    /\ pc = "single_loop"
    /\ IF attempt >= max_retries
       THEN /\ result' = get_error_result(task_type, MaxRetriesMsg)
            /\ pc' = "update_stats"
            /\ UNCHANGED <<processing_stats, escaped, attempt, sleeps, progress,
                           cbRaised, calls>>
       ELSE \E cb \in CallbackOutcomes :
            /\ progress' = Append(progress, P("Procesando chunk unico (intento)",
                                              attempt + 1, 0, cb))
            /\ cbRaised' = (cbRaised \/ cb = "raise")
            /\ IF cb = "raise"
               THEN SingleExcept("CallbackError") /\ UNCHANGED calls
               ELSE IF ~HasMethod(client, TargetMethod(task_type))
               THEN SingleExcept("AttributeError") /\ UNCHANGED calls
               ELSE /\ calls' = Append(calls,
                          Call(TargetMethod(task_type), "single", 1,
                               TargetArgs(task_type),
                               BuildPrompt(task_type, chunks[1].content, FALSE)))
                    /\ pc' = "single_call"
                    /\ UNCHANGED <<processing_stats, result, escaped, attempt, sleeps>>
    /\ UNCHANGED <<static_vars, processing, client, chunks, task_type, max_retries, i, chunk_summaries,
                   consolidated_info, runs, entry_stats>>

\* the client call of the single-chunk path returns
single_return ==
    /\ pc = "single_call"
    /\ \E r \in Returns(TargetMethod(task_type)) :
        /\ result' = IF task_type = "narrative" THEN Unwrap(r) ELSE r
        /\ calls' = Returned(calls, Unwrap(r))
    /\ pc' = "update_stats"
    /\ UNCHANGED <<static_vars, processing, client, processing_stats, chunks, task_type, max_retries,
                   attempt, i, chunk_summaries, consolidated_info, escaped,
                   sleeps, progress, runs, cbRaised, entry_stats>>

\* the client call of the single-chunk path raises
single_raise ==
    /\ pc = "single_call"
    /\ \E e \in RequestErrors : calls' = Raised(calls, e) /\ SingleExcept(e)
    /\ UNCHANGED <<static_vars, processing, client, chunks, task_type, max_retries, i, chunk_summaries,
                   consolidated_info, progress, runs, cbRaised, entry_stats>>

\* process_tor_chunks after the path returned: the stats update, the last
\* progress message, the return
update_stats ==
    /\ pc = "update_stats"
    /\ \E cb \in CallbackOutcomes :
        LET processing_time == Elapsed(sleeps)
            stats == [processing_stats EXCEPT
                        !.chunks_processed = Len(chunks),
                        !.total_tokens_processed = SumTokens(chunks),
                        !.processing_time = processing_time]
        IN  /\ progress' = Append(progress,
                                  P("Procesamiento completado", processing_time, 0, cb))
            /\ cbRaised' = (cbRaised \/ cb = "raise")
            /\ IF cb = "raise"
               THEN TopExcept("CallbackError", stats)
               ELSE /\ processing_stats' = stats
                    /\ pc' = "done"
                    /\ UNCHANGED <<result, escaped>>
    /\ UNCHANGED <<static_vars, processing, client, chunks, task_type, max_retries, attempt, i,
                   chunk_summaries, consolidated_info, calls, sleeps, runs,
                   entry_stats>>

\* _process_multiple_chunks_with_context: its first progress message
multi_start ==
    /\ pc = "multi_start"
    /\ \E cb \in CallbackOutcomes :
        /\ progress' = Append(progress, P("Iniciando procesamiento encadenado", 0, 0, cb))
        /\ cbRaised' = (cbRaised \/ cb = "raise")
        /\ IF cb = "raise"
           THEN TopExcept("CallbackError", processing_stats)
                /\ UNCHANGED <<chunk_summaries, i>>
           ELSE /\ chunk_summaries' = <<>>
                /\ i' = 1
                /\ pc' = "extract_loop"
                /\ UNCHANGED <<processing_stats, result, escaped>>
    /\ UNCHANGED <<static_vars, processing, client, chunks, task_type, max_retries, attempt,
                   consolidated_info, calls, sleeps, runs, entry_stats>>

\* The method _extract_chunk_information calls, whatever the task:
\* hasattr(self.client, 'generate') ... self.client.generate(extraction_prompt)
ExtractionMethod_Target(tt) == TargetMethod(tt)
ExtractionMethod(tt) == "generate"

\* The order in which the extraction loop visits the chunks:
\* for i, chunk in enumerate(chunks)
NextIndex_Skip(k) == k + 2
NextIndex(k) == k + 1

\* one pass of the extraction loop up to the call of
\* _extract_chunk_information, or the end of the loop
extract_begin ==
    /\ pc = "extract_loop"
    /\ IF i > Len(chunks)
       THEN /\ pc' = "synthesis"
            /\ UNCHANGED <<processing_stats, result, escaped, chunk_summaries, i,
                           calls, progress, cbRaised>>
       ELSE \E cb \in CallbackOutcomes :
            /\ progress' = Append(progress, P("Analizando chunk", i, Len(chunks), cb))
            /\ cbRaised' = (cbRaised \/ cb = "raise")
            /\ IF cb = "raise"
               THEN ChunkExcept("CallbackError") /\ UNCHANGED calls
               ELSE IF HasMethod(client, ExtractionMethod(task_type))
               THEN /\ calls' = Append(calls,
                          Call(ExtractionMethod(task_type), "extract", i, 1,
                               ExtractionPrompt(chunks[i], task_type)))
                    /\ pc' = "extract_call"
                    /\ UNCHANGED <<processing_stats, result, escaped,
                                   chunk_summaries, i>>
               ELSE /\ chunk_summaries' =
                          KeepSummary(chunk_summaries, FallbackSummary(chunks[i]))
                    /\ i' = NextIndex(i)
                    /\ pc' = "extract_loop"
                    /\ UNCHANGED <<processing_stats, result, escaped, calls>>
    /\ UNCHANGED <<static_vars, processing, client, chunks, task_type, max_retries, attempt,
                   consolidated_info, sleeps, runs, entry_stats>>

\* the extraction call returns
extract_return ==
    /\ pc = "extract_call"
    /\ \E r \in Returns(ExtractionMethod(task_type)) :
        /\ chunk_summaries' =
              KeepSummary(chunk_summaries, AnalysisSummary(chunks[i], r))
        /\ calls' = Returned(calls, Unwrap(r))
    /\ i' = NextIndex(i)
    /\ pc' = "extract_loop"
    /\ UNCHANGED <<static_vars, processing, client, processing_stats, chunks, task_type, max_retries,
                   attempt, consolidated_info, result, escaped, sleeps, progress,
                   runs, cbRaised, entry_stats>>

\* the extraction call raises
extract_raise ==
    /\ pc = "extract_call"
    /\ \E e \in RequestErrors : calls' = Raised(calls, e) /\ ExtractExcept(e)
    /\ UNCHANGED <<static_vars, processing, client, chunks, task_type, max_retries, attempt,
                   consolidated_info, sleeps, progress, runs, cbRaised, entry_stats>>

\* phase 2 up to the synthesis call
synthesis_begin ==
    /\ pc = "synthesis"
    /\ IF chunk_summaries = <<>>
       THEN /\ result' = get_error_result(task_type, NoExtractMsg)
            /\ pc' = "update_stats"
            /\ UNCHANGED <<processing_stats, escaped, consolidated_info, calls,
                           progress, cbRaised>>
       ELSE \E cb \in CallbackOutcomes :
            /\ consolidated_info' = Join(chunk_summaries)
            /\ progress' = Append(progress, P("Sintetizando informacion consolidada", 0, 0, cb))
            /\ cbRaised' = (cbRaised \/ cb = "raise")
            /\ IF cb = "raise"
               THEN SynthesisExcept("CallbackError") /\ UNCHANGED calls
               ELSE IF ~HasMethod(client, TargetMethod(task_type))
               THEN SynthesisExcept("AttributeError") /\ UNCHANGED calls
               ELSE /\ calls' = Append(calls,
                          Call(TargetMethod(task_type), "synthesis", 0,
                               TargetArgs(task_type),
                               BuildPrompt(task_type, consolidated_info', TRUE)))
                    /\ pc' = "synthesis_call"
                    /\ UNCHANGED <<processing_stats, result, escaped>>
    /\ UNCHANGED <<static_vars, processing, client, chunks, task_type, max_retries, attempt, i,
                   chunk_summaries, sleeps, runs, entry_stats>>

\* the synthesis call returns
synthesis_return ==
    /\ pc = "synthesis_call"
    /\ \E r \in Returns(TargetMethod(task_type)) :
        /\ result' = Unwrap(r)
        /\ calls' = Returned(calls, Unwrap(r))
    /\ pc' = "update_stats"
    /\ UNCHANGED <<static_vars, processing, client, processing_stats, chunks, task_type, max_retries,
                   attempt, i, chunk_summaries, consolidated_info, escaped,
                   sleeps, progress, runs, cbRaised, entry_stats>>

\* the synthesis call raises
synthesis_raise ==
    /\ pc = "synthesis_call"
    /\ \E e \in RequestErrors : calls' = Raised(calls, e) /\ SynthesisExcept(e)
    /\ UNCHANGED <<static_vars, processing, client, chunks, task_type, max_retries, attempt, i,
                   chunk_summaries, consolidated_info, sleeps, progress, runs,
                   cbRaised, entry_stats>>

\* The caller has the value (or the exception) and keeps the generator,
\* which is idle again; the frame of the invocation is gone.
return_to_caller ==
    /\ pc \in {"done", "raised"}
    /\ runs < MaxRuns
    /\ pc' = "idle"
    /\ chunks' = <<>> /\ task_type' = "narrative" /\ max_retries' = 0
    /\ attempt' = 0 /\ i' = 0
    /\ chunk_summaries' = <<>> /\ consolidated_info' = <<>>
    /\ result' = NoValue /\ escaped' = "none"
    /\ calls' = <<>> /\ sleeps' = <<>> /\ progress' = <<>>
    /\ cbRaised' = FALSE
    /\ entry_stats' = processing_stats
    /\ UNCHANGED <<static_vars, processing, client, processing_stats, runs>>

\* ui/wizard.py, _abort_generation: the "Abortar" button, enabled while
\* self._processing, pressed while the generation thread is alive.  It shows
\* a warning and calls _toggle_processing_state(False, "generation").
abort_generation ==
    /\ processing
    /\ pc \notin {"done", "raised"}
    /\ processing' = FALSE
    /\ UNCHANGED <<static_vars, client, processing_stats, pc, chunks, task_type, max_retries,
                   attempt, i, chunk_summaries, consolidated_info, result,
                   escaped, calls, sleeps, progress, runs, cbRaised, entry_stats>>

Invoke ==
    \E ch \in ChunkLists, tt \in TaskTypes, mr \in 0..MaxRetries :
        process_tor_chunks(ch, tt, mr)

Next ==
    \/ Invoke
    \/ dispatch
    \/ single_attempt
    \/ single_return
    \/ single_raise
    \/ update_stats
    \/ multi_start
    \/ extract_begin
    \/ extract_return
    \/ extract_raise
    \/ synthesis_begin
    \/ synthesis_return
    \/ synthesis_raise

\* One generator per generation request, invoked once (ui/wizard.py builds a
\* generator for every call of process_tor_chunks).
Spec == Init /\ [][Next]_vars

\* The same generator object invoked again and again.
NextRuns == Next \/ return_to_caller

SpecRuns == Init /\ [][NextRuns]_vars

\* The generation thread next to the wizard's main thread, on which the user
\* may press "Abortar".
NextAbort == Next \/ abort_generation

SpecAbort == Init /\ [][NextAbort]_vars

\* The worker thread runs on until process_tor_chunks is left.
SpecFair == Spec /\ WF_vars(Next)

\* ------------------------------------------------------------- splitter
\* No generator is in use.
GeneratorUnused ==
    /\ client = [hasGenerate |-> TRUE, hasGenerateJson |-> TRUE]
    /\ processing_stats = [chunks_processed |-> 0, total_tokens_processed |-> 0,
                           processing_time |-> 0, errors |-> <<>>]
    /\ pc = "idle"
    /\ chunks = <<>> /\ task_type = "narrative" /\ max_retries = 0
    /\ attempt = 0 /\ i = 0
    /\ chunk_summaries = <<>> /\ consolidated_info = <<>>
    /\ result = NoValue /\ escaped = "none"
    /\ calls = <<>> /\ sleeps = <<>> /\ progress = <<>>
    /\ runs = 0 /\ cbRaised = FALSE
    /\ entry_stats = processing_stats
    /\ processing = FALSE

\* A call of TokenManager.intelligent_chunk_tor.
InitChunker ==
    /\ tor_content \in Documents
    /\ max_tokens_per_chunk \in MaxTokensChoices
    /\ overlap_tokens \in OverlapChoices
    /\ cpc = "call"
    /\ chunker_chunks = <<>> /\ tor_chunks = <<>>
    /\ LimitsUnused
    /\ GeneratorUnused
    /\ ExtraUnused

generator_vars == <<processing, client, processing_stats, pc, chunks, task_type,
                    max_retries, attempt, i, chunk_summaries, consolidated_info,
                    result, escaped, calls, sleeps, progress, runs, cbRaised,
                    entry_stats>>

\* intelligent_chunk_tor up to the end of the quick check
intelligent_chunk_tor ==
    /\ cpc = "call"
    /\ IF IsBlank(tor_content)
       THEN /\ tor_chunks' = <<>>
            /\ cpc' = "returned"
       ELSE LET estimated_tokens == estimate_tokens(tor_content)
            IN  IF estimated_tokens <= max_tokens_per_chunk
                THEN /\ tor_chunks' = <<WholeDocument(tor_content, estimated_tokens)>>
                     /\ cpc' = "returned"
                ELSE /\ cpc' = "split"
                     /\ UNCHANGED tor_chunks
    /\ UNCHANGED <<tor_content, max_tokens_per_chunk, overlap_tokens,
                   chunker_chunks, generator_vars, limit_vars, extra_vars>>

\* hierarchical chunking and its fallbacks
split_document ==
    /\ cpc = "split"
    /\ chunker_chunks' = split_chunks(tor_content, max_tokens_per_chunk, overlap_tokens)
    /\ cpc' = "post"
    /\ UNCHANGED <<tor_content, max_tokens_per_chunk, overlap_tokens, tor_chunks,
                   generator_vars, limit_vars, extra_vars>>

\* return TokenManager._post_process_chunks(chunks)
post_process ==
    /\ cpc = "post"
    /\ tor_chunks' = post_process_chunks(chunker_chunks)
    /\ cpc' = "returned"
    /\ UNCHANGED <<tor_content, max_tokens_per_chunk, overlap_tokens,
                   chunker_chunks, generator_vars, limit_vars, extra_vars>>

NextChunker == intelligent_chunk_tor \/ split_document \/ post_process

SpecChunker == InitChunker /\ [][NextChunker]_vars

\* ------------------------------------------------------------- window loops
\* Texts, budgets and overlaps of a few characters, so that a window, the
\* overlap and the text end in every order.
MaxWindowTokens == 3
MaxOverlapTokens == 2
WindowTexts ==
    { <<>>, <<SP>>, <<Txt("txt", 1, 10)>>, <<Txt("txt", 3, 4)>>,
      <<Txt("txt", 2, 3), PAR, Txt("sent", 2, 2)>>,
      <<NL, Txt("txt", 1, 13), SP>> }

InitWindows ==
    /\ tor_content \in WindowTexts
    /\ max_tokens_per_chunk \in 1..MaxWindowTokens
    /\ overlap_tokens \in 0..MaxOverlapTokens
    /\ cpc \in {"call", "_character_chunk", "_character_chunk_text"}
    /\ chunker_chunks = <<>> /\ tor_chunks = <<>>
    /\ WindowUnused
    /\ LimitsUnused
    /\ GeneratorUnused
    /\ SonnetUnused /\ WizardUnused /\ CallerUnused

\* One pass of "while start < len(content)" in _character_chunk; the pass
\* that finds the condition false returns.
character_chunk_pass ==
    /\ cpc = "_character_chunk"
    /\ window_passes' = window_passes + 1
    /\ IF window_start >= Chars(tor_content)
       THEN /\ cpc' = "returned"
            /\ UNCHANGED <<chunker_chunks, window_start, window_ends>>
       ELSE LET max_chars == max_tokens_per_chunk * AVG_CHARS_PER_TOKEN
                overlap_chars == overlap_tokens * AVG_CHARS_PER_TOKEN
                end == WindowEnd(tor_content, window_start, max_chars)
                chunk_content == StripSlice(tor_content, window_start, end)
                next == Max(end - overlap_chars, window_start + 1)
            IN  /\ IF chunk_content # <<>>
                   THEN /\ chunker_chunks' =
                             Append(chunker_chunks,
                                    PartChunk(chunk_content,
                                              Section("char_chunk", "",
                                                      Len(chunker_chunks)),
                                              estimate_tokens(chunk_content)))
                        /\ window_ends' = Append(window_ends, end)
                   ELSE UNCHANGED <<chunker_chunks, window_ends>>
                /\ window_start' = next
                /\ cpc' = IF next >= end THEN "returned" ELSE cpc
    /\ UNCHANGED <<tor_content, max_tokens_per_chunk, overlap_tokens, tor_chunks,
                   generator_vars, limit_vars, sonnet_vars, wizard_vars,
                   caller_vars>>

\* One pass of "while start < len(text)" in _character_chunk_text.
character_chunk_text_pass ==
    /\ cpc = "_character_chunk_text"
    /\ window_passes' = window_passes + 1
    /\ IF window_start >= Chars(tor_content)
       THEN /\ cpc' = "returned"
            /\ UNCHANGED <<chunker_chunks, window_start, window_ends>>
       ELSE LET max_chars == max_tokens_per_chunk * AVG_CHARS_PER_TOKEN
                end == WindowEnd(tor_content, window_start, max_chars)
                chunk == StripSlice(tor_content, window_start, end)
            IN  /\ IF chunk # <<>>
                   THEN /\ chunker_chunks' = Append(chunker_chunks, chunk)
                        /\ window_ends' = Append(window_ends, end)
                   ELSE UNCHANGED <<chunker_chunks, window_ends>>
                /\ window_start' = end
                /\ cpc' = IF end >= Chars(tor_content) THEN "returned" ELSE cpc
    /\ UNCHANGED <<tor_content, max_tokens_per_chunk, overlap_tokens, tor_chunks,
                   generator_vars, limit_vars, sonnet_vars, wizard_vars,
                   caller_vars>>

NextWindows ==
    \/ character_chunk_pass
    \/ character_chunk_text_pass
    \/ intelligent_chunk_tor
    \/ split_document
    \/ post_process

SpecWindows == InitWindows /\ [][NextWindows]_vars

\* ------------------------------------------------------------- token limits
\* A provider name: its letters in lower case and the positions written in
\* upper case.
Name(letters, caps) == [letters |-> letters, caps |-> caps]

\* str.lower
lower(name) == [name EXCEPT !.caps = {}]

\* TokenLimits
DEEPSEEK_CONTEXT == 32000
SONNET_CONTEXT == 200000
\* SAFETY_MARGIN = 0.75
SAFETY_MARGIN_PERCENT == 75
\* provider_limits.get(provider.lower(), 8000)
DefaultContext == 8000
\* min(prompt_overhead, 3000)
DeepSeekOverheadCap == 3000
\* max(..., 1000)
MinContentTokens == 1000

provider_limits(name) ==
    IF name = Name("deepseek", {}) THEN DEEPSEEK_CONTEXT
    ELSE IF name \in {Name("sonnet", {}), Name("claude", {}), Name("anthropic", {})}
    THEN SONNET_CONTEXT
    ELSE DefaultContext

\* get_max_content_tokens
MaxContentTokens_NoCap(provider_name, overhead) ==
    Max((provider_limits(lower(provider_name)) * SAFETY_MARGIN_PERCENT) \div 100
        - overhead, MinContentTokens)
MaxContentTokens(provider_name, overhead) ==
    LET total_limit == provider_limits(lower(provider_name))
        available == (total_limit * SAFETY_MARGIN_PERCENT) \div 100
        capped == IF lower(provider_name) = Name("deepseek", {})
                  THEN Min(overhead, DeepSeekOverheadCap) ELSE overhead
    IN  Max(available - capped, MinContentTokens)

Providers ==
    { Name(letters, caps) :
        letters \in {"deepseek", "sonnet", "claude", "anthropic", "openai"},
        caps \in {{}, {1}, {1, 5}} } \cup {Name("", {})}

OverheadChoices ==
    {0, 2500, 3000, 3001, 5000, 5001, 20000, 23000, 23001, 149000, 149001, 200000}

\* A call of TokenManager.get_max_content_tokens.
InitLimits ==
    /\ provider \in Providers
    /\ prompt_overhead \in OverheadChoices
    /\ lpc = "call"
    /\ max_content_tokens = 0
    /\ ChunkerUnused
    /\ GeneratorUnused
    /\ ExtraUnused

get_max_content_tokens ==
    /\ lpc = "call"
    /\ max_content_tokens' = MaxContentTokens(provider, prompt_overhead)
    /\ lpc' = "returned"
    /\ UNCHANGED <<provider, prompt_overhead, chunker_vars, generator_vars, extra_vars>>

SpecLimits == InitLimits /\ [][get_max_content_tokens]_vars

\* ------------------------------------------------------------- structured client
\* The text of a response is a sequence of characters, possibly between an
\* opening and a closing code fence.
MaxTextLen == 3

Alphabet == {"{", "}", "[", "]", "\"", "\\", "1", "x", ","}

\* "```json" and the end of its line; the start of a line and "```"
FENCE_OPEN == "fence_open"
FENCE_CLOSE == "fence_close"

RECURSIVE Strings(_)
Strings(n) ==
    IF n = 0 THEN {<<>>}
    ELSE Strings(n - 1) \cup
         { Append(s, c) : s \in {t \in Strings(n - 1) : Len(t) = n - 1}, c \in Alphabet }

ResponseTexts ==
    { open \o body \o close :
        open \in {<<>>, <<FENCE_OPEN>>}, body \in Strings(MaxTextLen),
        close \in {<<>>, <<FENCE_CLOSE>>} }

\* _strip_code_fences: the opening fence goes when a line follows it, the
\* closing fence when it ends the text that is left.
strip_code_fences(text) ==
    LET opened == IF Len(text) > 1 /\ text[1] = FENCE_OPEN THEN Tail(text) ELSE text
    IN  IF Len(opened) > 1 /\ opened[Len(opened)] = FENCE_CLOSE
        THEN SubSeq(opened, 1, Len(opened) - 1)
        ELSE opened

\* json.loads: the position after the string whose opening quote precedes
\* pos, 0 if the text is no JSON there.
RECURSIVE StringEnd(_, _)
StringEnd(text, pos) ==
    IF pos > Len(text) THEN 0
    ELSE IF text[pos] = "\"" THEN pos + 1
    ELSE IF text[pos] = "\\"
         THEN IF pos + 1 <= Len(text) /\ text[pos + 1] \in {"\"", "\\"}
              THEN StringEnd(text, pos + 2)
              ELSE 0
    ELSE IF text[pos] \in {FENCE_OPEN, FENCE_CLOSE} THEN 0
    ELSE StringEnd(text, pos + 1)

RECURSIVE NumberEnd(_, _)
NumberEnd(text, pos) ==
    IF pos <= Len(text) /\ text[pos] = "1" THEN NumberEnd(text, pos + 1) ELSE pos

\* The position after the value that starts at pos, 0 if there is none.  An
\* object has no members: the alphabet has no colon.
RECURSIVE ValueEnd(_, _)
RECURSIVE ElementsEnd(_, _)
ValueEnd(text, pos) ==
    IF pos > Len(text) THEN 0
    ELSE IF text[pos] = "{"
         THEN IF pos + 1 <= Len(text) /\ text[pos + 1] = "}" THEN pos + 2 ELSE 0
    ELSE IF text[pos] = "["
         THEN IF pos + 1 <= Len(text) /\ text[pos + 1] = "]" THEN pos + 2
              ELSE ElementsEnd(text, pos + 1)
    ELSE IF text[pos] = "\"" THEN StringEnd(text, pos + 1)
    ELSE IF text[pos] = "1" THEN NumberEnd(text, pos)
    ELSE 0

ElementsEnd(text, pos) ==
    LET v == ValueEnd(text, pos)
    IN  IF v = 0 \/ v > Len(text) THEN 0
        ELSE IF text[v] = "," THEN ElementsEnd(text, v + 1)
        ELSE IF text[v] = "]" THEN v + 1
        ELSE 0

\* json.loads(text): the Python type of the value, or ValueError
json_loads(text) ==
    IF text # <<>> /\ ValueEnd(text, 1) = Len(text) + 1
    THEN CASE text[1] = "{" -> "dict"
           [] text[1] = "[" -> "list"
           [] text[1] = "\"" -> "str"
           [] OTHER -> "int"
    ELSE "ValueError"

\* _extract_first_json, the scan from one start: the index at which the
\* stack empties, 0 if the scan breaks or runs off the text.
RECURSIVE BalancedEnd(_, _, _, _, _)
BalancedEnd(text, k, stack, in_str, esc) ==
    IF k > Len(text) THEN 0
    ELSE LET ch == text[k]
         IN  IF in_str
             THEN IF esc THEN BalancedEnd(text, k + 1, stack, TRUE, FALSE)
                  ELSE IF ch = "\\" THEN BalancedEnd(text, k + 1, stack, TRUE, TRUE)
                  ELSE IF ch = "\"" THEN BalancedEnd(text, k + 1, stack, FALSE, FALSE)
                  ELSE BalancedEnd(text, k + 1, stack, TRUE, FALSE)
             ELSE IF ch = "\"" THEN BalancedEnd(text, k + 1, stack, TRUE, esc)
                  ELSE IF ch \in {"{", "["}
                       THEN BalancedEnd(text, k + 1, Append(stack, ch), FALSE, esc)
                  ELSE IF ch \in {"}", "]"}
                       THEN IF stack = <<>> THEN 0
                            ELSE LET opener == stack[Len(stack)]
                                     rest == SubSeq(stack, 1, Len(stack) - 1)
                                 IN  IF <<opener, ch>> \notin {<<"{", "}">>, <<"[", "]">>}
                                     THEN 0
                                     ELSE IF rest = <<>> THEN k
                                     ELSE BalancedEnd(text, k + 1, rest, FALSE, esc)
                  ELSE BalancedEnd(text, k + 1, stack, FALSE, esc)

\* _extract_first_json, the loop over the starts
RECURSIVE FirstCandidate(_, _)
FirstCandidate(text, start) ==
    IF start > Len(text) THEN <<"ValueError">>
    ELSE IF text[start] \notin {"{", "["} THEN FirstCandidate(text, start + 1)
    ELSE LET end == BalancedEnd(text, start, <<>>, FALSE, FALSE)
         IN  IF end # 0 /\ json_loads(SubSeq(text, start, end)) # "ValueError"
             THEN SubSeq(text, start, end)
             ELSE FirstCandidate(text, start + 1)

\* _extract_first_json: the text to parse, <<"ValueError">> if it raises
extract_first_json(text) ==
    IF json_loads(text) # "ValueError" THEN text ELSE FirstCandidate(text, 1)

\* {**empty, "error": ...}
ErrorDict == [type |-> "dict", error |-> TRUE]

\* What requests.post and resp.json() do: a status other than 200, an
\* exception of requests, a body that is no JSON, a body that is JSON but no
\* object, or a message with its content blocks.
HttpOutcomes == {"status_404", "status_500", "Timeout", "ConnectionError",
                 "body_unparsable", "body_not_object", "ok"}

\* The statement  return json.loads(json_str)  and the handler around it.
ParsedResponse(text) ==
    LET json_str == extract_first_json(strip_code_fences(text))
    IN  IF json_str = <<"ValueError">> THEN ErrorDict
        ELSE [type |-> json_loads(json_str), error |-> FALSE]

\* A call of SonnetClient.generate_json.
InitSonnet ==
    /\ api_key \in BOOLEAN
    /\ http_outcome \in HttpOutcomes
    /\ response_text \in IF http_outcome = "ok" THEN ResponseTexts ELSE {<<>>}
    /\ jpc = "call"
    /\ json_result = [type |-> "none", error |-> FALSE]
    /\ ChunkerUnused
    /\ LimitsUnused
    /\ GeneratorUnused
    /\ WizardUnused
    /\ CallerUnused
    /\ WindowUnused

generate_json ==
    /\ jpc = "call"
    /\ json_result' =
         IF ~api_key THEN ErrorDict
         ELSE IF http_outcome = "ok" THEN ParsedResponse(response_text)
         ELSE ErrorDict
    /\ jpc' = "returned"
    /\ UNCHANGED <<api_key, http_outcome, response_text, chunker_vars,
                   limit_vars, generator_vars, wizard_vars, caller_vars,
                   window_vars>>

SpecSonnet == InitSonnet /\ [][generate_json]_vars

\* ------------------------------------------------------------- wizard
\* Threads the wizard may start in one behaviour.
MaxThreads == 3

\* The variables of the generator, which the wizard's handlers do not touch.
run_vars == <<client, processing_stats, pc, chunks, task_type, max_retries,
              attempt, i, chunk_summaries, consolidated_info, result, escaped,
              calls, sleeps, progress, runs, cbRaised, entry_stats>>

\* threading.Thread(target=...): the target and the statement the thread is
\* about to execute
Thread(target, at) == [target |-> target, at |-> at]

\* Thread.is_alive()
is_alive(t) == t # 0 /\ threads[t].at # "exited"

\* The stages of _enhanced_generation_task, in order: the narrative is
\* generated and stored, the budget is generated and stored, the files are
\* saved.
NextStage(at) ==
    CASE at = "narrative" -> "budget"
      [] at = "budget" -> "save"
      [] at = "save" -> "exited"

\* _run_pre_generation_validation with the project and the APIs in order: its
\* result, and the state it gives the generate button
can_generate == tor_ok
ValidatedButton == IF can_generate THEN "normal" ELSE "disabled"

\* ProposalWizard.__init__, and the project saved and the APIs found
InitWizard ==
    /\ processing = FALSE
    /\ generate_button = "disabled" /\ abort_button = "disabled"
    /\ tor_ok = FALSE
    /\ threads = <<>> /\ current_thread = 0
    /\ ui_queue = <<>>
    /\ client = [hasGenerate |-> TRUE, hasGenerateJson |-> TRUE]
    /\ processing_stats = [chunks_processed |-> 0, total_tokens_processed |-> 0,
                           processing_time |-> 0, errors |-> <<>>]
    /\ pc = "idle"
    /\ chunks = <<>> /\ task_type = "narrative" /\ max_retries = 0
    /\ attempt = 0 /\ i = 0
    /\ chunk_summaries = <<>> /\ consolidated_info = <<>>
    /\ result = NoValue /\ escaped = "none"
    /\ calls = <<>> /\ sleeps = <<>> /\ progress = <<>>
    /\ runs = 0 /\ cbRaised = FALSE
    /\ entry_stats = processing_stats
    /\ ChunkerUnused
    /\ LimitsUnused
    /\ SonnetUnused
    /\ CallerUnused
    /\ WindowUnused

\* _on_tab_changed to the generation tab
on_tab_changed ==
    /\ generate_button' = ValidatedButton
    /\ UNCHANGED <<processing, abort_button, tor_ok, threads, current_thread,
                   ui_queue, run_vars, chunker_vars, limit_vars, sonnet_vars, caller_vars,
                   window_vars>>

\* The generate button is pressed.
start_enhanced_generation ==
    /\ generate_button = "normal"
    /\ Len(threads) < MaxThreads
    /\ IF ~can_generate
       THEN /\ generate_button' = "disabled"
            /\ UNCHANGED <<processing, abort_button, threads, current_thread>>
       ELSE /\ processing' = TRUE
            /\ generate_button' = "disabled"
            /\ abort_button' = "normal"
            /\ threads' = Append(threads, Thread("_enhanced_generation_task", "narrative"))
            /\ current_thread' = Len(threads) + 1
    /\ UNCHANGED <<tor_ok, ui_queue, run_vars, chunker_vars, limit_vars, sonnet_vars, caller_vars,
                   window_vars>>

\* One stage of _enhanced_generation_task in thread t; it ends, or raises,
\* and the thread leaves _finish_generation_ui_update to the main loop.
enhanced_generation_task(t) ==
    /\ threads[t].target = "_enhanced_generation_task"
    /\ is_alive(t)
    /\ \E outcome \in {"ok", "raise"} :
         LET at == IF outcome = "raise" THEN "exited" ELSE NextStage(threads[t].at)
         IN  /\ threads' = [threads EXCEPT ![t].at = at]
             /\ ui_queue' = IF at = "exited"
                            THEN Append(ui_queue, "_finish_generation_ui_update")
                            ELSE ui_queue
    /\ UNCHANGED <<processing, generate_button, abort_button, tor_ok,
                   current_thread, run_vars, chunker_vars, limit_vars, sonnet_vars, caller_vars,
                   window_vars>>

\* The abort button is pressed.
abort_pressed ==
    /\ abort_button = "normal"
    /\ IF is_alive(current_thread)
       THEN /\ processing' = FALSE
            /\ generate_button' = ValidatedButton
            /\ abort_button' = "disabled"
       ELSE UNCHANGED <<processing, generate_button, abort_button>>
    /\ UNCHANGED <<tor_ok, threads, current_thread, ui_queue, run_vars,
                   chunker_vars, limit_vars, sonnet_vars, caller_vars,
                   window_vars>>

\* _on_tor_file_selected, _reprocess_tor
start_tor_processing ==
    /\ Len(threads) < MaxThreads
    /\ processing' = TRUE
    /\ threads' = Append(threads, Thread("_process_tor_task", "extract"))
    /\ current_thread' = Len(threads) + 1
    /\ UNCHANGED <<generate_button, abort_button, tor_ok, ui_queue, run_vars,
                   chunker_vars, limit_vars, sonnet_vars, caller_vars,
                   window_vars>>

\* _process_tor_task in thread t: the text is stored, or the extraction fails
process_tor_task(t) ==
    /\ threads[t].target = "_process_tor_task"
    /\ is_alive(t)
    /\ threads' = [threads EXCEPT ![t].at = "exited"]
    /\ \E outcome \in {"ok", "raise"} :
         /\ tor_ok' = IF outcome = "ok" THEN TRUE ELSE tor_ok
         /\ ui_queue' = Append(ui_queue, IF outcome = "ok" THEN "_toggle_processing_state"
                                         ELSE "_safe_handle_tor_error")
    /\ UNCHANGED <<processing, generate_button, abort_button, current_thread,
                   run_vars, chunker_vars, limit_vars, sonnet_vars, caller_vars,
                   window_vars>>

\* _clear_tor_data
clear_tor_data ==
    /\ tor_ok
    /\ tor_ok' = FALSE
    /\ UNCHANGED <<processing, generate_button, abort_button, threads,
                   current_thread, ui_queue, run_vars, chunker_vars, limit_vars,
                   sonnet_vars, caller_vars, window_vars>>

\* The main loop runs the oldest pending callback.
run_callback ==
    /\ ui_queue # <<>>
    /\ ui_queue' = Tail(ui_queue)
    /\ processing' = FALSE
    /\ IF Head(ui_queue) = "_finish_generation_ui_update"
       THEN /\ generate_button' = ValidatedButton
            /\ abort_button' = "disabled"
       ELSE UNCHANGED <<generate_button, abort_button>>
    /\ UNCHANGED <<tor_ok, threads, current_thread, run_vars, chunker_vars,
                   limit_vars, sonnet_vars, caller_vars,
                   window_vars>>

NextWizard ==
    \/ on_tab_changed
    \/ start_enhanced_generation
    \/ \E t \in 1..Len(threads) : enhanced_generation_task(t)
    \/ abort_pressed
    \/ start_tor_processing
    \/ \E t \in 1..Len(threads) : process_tor_task(t)
    \/ clear_tor_data
    \/ run_callback

SpecWizard == InitWizard /\ [][NextWizard]_vars

\* ------------------------------------------------------------- stats
\* Appends the caller makes to a list it obtained.
MaxCallerNotes == 1

\* dict.copy() is shallow: the copy has its own numbers and shares the list
\* under "errors" with self.processing_stats.
ShallowCopy(stats) ==
    [kind |-> "copy", chunks_processed |-> stats.chunks_processed,
     total_tokens_processed |-> stats.total_tokens_processed,
     processing_time |-> stats.processing_time]

\* "processing_stats": self.processing_stats -- the dict itself
SameDict == [NoSnapshot EXCEPT !.kind = "alias"]

\* What the caller reads in the dict it holds.
SnapshotValue ==
    IF snapshot.kind = "copy"
    THEN [chunks_processed |-> snapshot.chunks_processed,
          total_tokens_processed |-> snapshot.total_tokens_processed,
          processing_time |-> snapshot.processing_time,
          errors |-> processing_stats.errors]
    ELSE processing_stats

\* get_processing_stats, called between two invocations
get_processing_stats ==
    /\ pc \in {"idle", "done"}
    /\ snapshot.kind = "none"
    /\ snapshot' = ShallowCopy(processing_stats)
    /\ UNCHANGED <<caller_notes, processing, run_vars, chunker_vars, limit_vars,
                   sonnet_vars, wizard_vars, window_vars>>

\* The caller keeps result["processing_stats"] of a budget error result.
keep_result_stats ==
    /\ pc = "done"
    /\ result.type = "dict"
    /\ result.processing_stats = "self.processing_stats"
    /\ snapshot.kind = "none"
    /\ snapshot' = SameDict
    /\ UNCHANGED <<caller_notes, processing, run_vars, chunker_vars, limit_vars,
                   sonnet_vars, wizard_vars, window_vars>>

\* The caller appends to the "errors" list of the dict it holds.
caller_appends ==
    /\ pc \in {"idle", "done"}
    /\ snapshot.kind # "none"
    /\ caller_notes < MaxCallerNotes
    /\ caller_notes' = caller_notes + 1
    /\ processing_stats' =
          [processing_stats EXCEPT !.errors = Append(@, <<T("caller")>>)]
    /\ UNCHANGED <<snapshot, processing, client, pc, chunks, task_type,
                   max_retries, attempt, i, chunk_summaries, consolidated_info,
                   result, escaped, calls, sleeps, progress, runs, cbRaised,
                   entry_stats, chunker_vars, limit_vars, sonnet_vars,
                   wizard_vars, window_vars>>

\* Invocations with at most one chunk and one attempt.
InvokeShort ==
    \E ch \in {c \in ChunkLists : Len(c) <= 1}, tt \in TaskTypes :
        process_tor_chunks(ch, tt, 1)

NextStats ==
    \/ InvokeShort
    \/ dispatch
    \/ single_attempt
    \/ single_return
    \/ single_raise
    \/ update_stats
    \/ return_to_caller
    \/ get_processing_stats
    \/ keep_result_stats
    \/ caller_appends

SpecStats == Init /\ [][NextStats]_vars

\* ------------------------------------------------------------- observations
Last(seq) == seq[Len(seq)]

\* the calls to the target client of the single-chunk and synthesis paths
TargetCalls == SelectSeq(calls, LAMBDA c : c.phase \in {"single", "synthesis"})
ExtractCalls == SelectSeq(calls, LAMBDA c : c.phase = "extract")
SynthesisCalls == SelectSeq(calls, LAMBDA c : c.phase = "synthesis")

FinalCallbackRaised ==
    /\ progress # <<>>
    /\ Last(progress).msg = "Procesamiento completado"
    /\ Last(progress).raised

\* The invocation ended with the value of a target call that did not raise.
RunSucceeded ==
    /\ pc = "done"
    /\ TargetCalls # <<>>
    /\ Last(TargetCalls).status = "returned"
    /\ ~FinalCallbackRaised

StartsWithError(v) == v.type = "str" /\ v.text # <<>> /\ v.text[1] = ErrorMarker

Contains(text, token) == \E k \in 1..Len(text) : text[k] = token

\* messages appended to processing_stats["errors"] since the invocation began
ErrorsAddedThisRun ==
    SubSeq(processing_stats.errors, Len(entry_stats.errors) + 1,
           Len(processing_stats.errors))

\* ------------------------------------------------------------- claims
C1_Returned ==
    /\ pc # "raised"
    /\ escaped = "none"
    /\ pc = "done" =>
        /\ result.type \in {"str", "dict"}
        /\ task_type = "narrative" => result.type = "str"
        /\ (task_type # "narrative" /\ ~RunSucceeded) =>
              /\ result.type = "dict"
              /\ "error" \in result.keys
              /\ result.items = <<>>
              /\ result.total = 0

\* C1: for every chunk list, task type, max_retries >= 0 and client behaviour,
\* process_tor_chunks ends by returning a value and no exception leaves it; the
\* value is a string for "narrative", and for a failed budget task a dict with
\* an "error" field, items = [] and total = 0.0.
C1_Totality == [](C1_Returned) /\ <>(pc = "done")

\* A budget run in which every one of max_retries >= 2 calls raised.
C1_Witness ==
    /\ pc = "done"
    /\ task_type = "budget"
    /\ Len(chunks) = 1
    /\ max_retries >= 2
    /\ Len(calls) = max_retries
    /\ \A k \in 1..Len(calls) : calls[k].status = "raised"
    /\ "error" \in result.keys

\* The text that carries the error message of an error result.
ErrorText(v) == IF v.type = "str" THEN v.text ELSE v.error

\* C2: an invocation with an empty chunk list returns the error result of the
\* task type (a string for narrative, the empty budget with an "error" field
\* otherwise) and calls neither client.generate nor client.generate_json.
C2_EmptyState ==
    (pc = "done" /\ chunks = <<>>) =>
        /\ calls = <<>>
        /\ progress = <<>>
        /\ \A k \in 1..Len(EmptyMsg(task_type)) :
              Contains(ErrorText(result), EmptyMsg(task_type)[k])
        /\ IF task_type = "narrative"
           THEN StartsWithError(result)
           ELSE /\ result.type = "dict"
                /\ "error" \in result.keys
                /\ result.items = <<>>
                /\ result.total = 0

C2_Witness == pc = "done" /\ chunks = <<>> /\ task_type = "budget" /\ max_retries > 0

\* C3: with exactly one chunk the target client is called at most max_retries
\* times, the first call that does not raise ends the loop and its result is
\* returned, and when all max_retries calls raised the error result names
\* max_retries and the text of the last exception.
C3_SingleChunkRetry ==
    Len(chunks) = 1 =>
        /\ Len(calls) <= max_retries
        /\ \A k \in 1..Len(calls) :
              /\ calls[k].phase = "single"
              /\ calls[k].method = (IF task_type = "narrative" THEN "generate"
                                    ELSE "generate_json")
        /\ \A k \in 1..(Len(calls) - 1) : calls[k].status = "raised"
        /\ (pc = "done" /\ calls # <<>> /\ Last(calls).status = "returned"
            /\ ~FinalCallbackRaised) => result = Last(calls).value
        /\ (pc = "done" /\ max_retries >= 1 /\ Len(calls) = max_retries
            /\ Last(calls).status = "raised" /\ ~FinalCallbackRaised) =>
              /\ task_type = "narrative" => StartsWithError(result)
              /\ task_type # "narrative" => "error" \in result.keys
              /\ Contains(ErrorText(result), Num(max_retries))
              /\ Contains(ErrorText(result), T(Last(calls).exc))

\* Three calls raised, the last one with another exception than the first.
C3_Witness ==
    /\ pc = "done"
    /\ Len(chunks) = 1
    /\ max_retries = 3
    /\ Len(calls) = 3
    /\ \A k \in 1..3 : calls[k].status = "raised"
    /\ calls[1].exc # calls[3].exc
    /\ ~FinalCallbackRaised

\* C4: in a multi-chunk run the synthesis call is retried like the single-chunk
\* call: a run ends after a synthesis call that raised only when max_retries
\* synthesis calls have been made.
C4_SynthesisRetried ==
    (pc = "done" /\ Len(chunks) > 1 /\ SynthesisCalls # <<>>
     /\ Last(SynthesisCalls).status = "raised")
        => Len(SynthesisCalls) >= max_retries

\* The entries of a text joined with "\n\n".
RECURSIVE Entries(_)
Entries(text) ==
    IF \A k \in 1..Len(text) : text[k] # SEP
    THEN <<text>>
    ELSE LET k == CHOOSE j \in 1..Len(text) :
                     text[j] = SEP /\ \A h \in 1..(j - 1) : text[h] # SEP
         IN  <<SubSeq(text, 1, k - 1)>> \o Entries(SubSeq(text, k + 1, Len(text)))

\* C5: in a narrative run over N >= 3 chunks in which exactly one extraction
\* call raises and every other call succeeds, the synthesis call is made and
\* its result returned, and the text given to it has N entries in chunk order:
\* a "could not be processed" placeholder for the failed chunk and the
\* summaries of the others.
C5_PartialFailure ==
    (/\ pc = "done"
     /\ task_type = "narrative"
     /\ Len(chunks) >= 3
     /\ ~cbRaised
     /\ Len(ExtractCalls) = Len(chunks)
     /\ Cardinality({k \in 1..Len(ExtractCalls) : ExtractCalls[k].status = "raised"}) = 1
     /\ \A k \in 1..Len(calls) :
           calls[k].status = "returned" => ~StartsWithError(calls[k].value)
     /\ \A k \in 1..Len(SynthesisCalls) : SynthesisCalls[k].status = "returned")
    =>
        /\ Len(SynthesisCalls) = 1
        /\ result = SynthesisCalls[1].value
        /\ ~StartsWithError(result)
        /\ LET entries == Entries(SynthesisCalls[1].prompt.content)
           IN  /\ Len(entries) = Len(chunks)
               /\ \A k \in 1..Len(chunks) :
                     entries[k] =
                        IF ExtractCalls[k].status = "raised"
                        THEN <<T("ERROR -"), T(chunks[k].section),
                               T("No se pudo procesar")>>
                        ELSE <<T("ANALISIS -"), T(chunks[k].section)>>
                             \o ExtractCalls[k].value.text

\* Three chunks, the extraction of the second raised, the synthesis returned.
C5_Witness ==
    /\ pc = "done"
    /\ task_type = "narrative"
    /\ Len(chunks) = 3
    /\ ~cbRaised
    /\ Len(ExtractCalls) = 3
    /\ ExtractCalls[1].status = "returned" /\ ~StartsWithError(ExtractCalls[1].value)
    /\ ExtractCalls[2].status = "raised"
    /\ ExtractCalls[3].status = "returned" /\ ~StartsWithError(ExtractCalls[3].value)
    /\ Len(SynthesisCalls) = 1
    /\ SynthesisCalls[1].status = "returned"
    /\ ~StartsWithError(result)

\* C6: every extraction call goes to client.generate whatever the task, the
\* synthesis call goes to generate for "narrative" and to generate_json
\* otherwise, and a synthesis call that succeeds is the only one; a successful
\* budget run over N chunks with a client that has both methods (and a quiet
\* progress callback) makes N generate calls and then one generate_json call.
C6_ClientSelection ==
    /\ \A k \in 1..Len(calls) :
          /\ calls[k].phase = "extract" => calls[k].method = "generate"
          /\ calls[k].phase = "synthesis" =>
                calls[k].method = (IF task_type = "narrative" THEN "generate"
                                   ELSE "generate_json")
    /\ (SynthesisCalls # <<>> /\ SynthesisCalls[1].status = "returned")
          => Len(SynthesisCalls) = 1
    /\ (/\ RunSucceeded
        /\ task_type = "budget"
        /\ Len(chunks) > 1
        /\ client.hasGenerate /\ client.hasGenerateJson
        /\ ~cbRaised)
       => /\ Len(calls) = Len(chunks) + 1
          /\ \A k \in 1..Len(chunks) :
                /\ calls[k].method = "generate"
                /\ calls[k].phase = "extract"
                /\ calls[k].idx = k
          /\ Last(calls).method = "generate_json"
          /\ Last(calls).phase = "synthesis"

\* A successful budget run over three chunks.
C6_Witness ==
    /\ RunSucceeded
    /\ task_type = "budget"
    /\ Len(chunks) = 3
    /\ client.hasGenerate /\ client.hasGenerateJson
    /\ ~cbRaised
    /\ "error" \notin result.keys

\* The positions in the call log of the extraction call for chunk k.
ExtractCallOf(k) ==
    {j \in 1..Len(calls) : calls[j].phase = "extract" /\ calls[j].idx = k}

\* What the extraction of chunk k left, read from the call log.
ExtractionOutputOk(k, entry) ==
    IF ExtractCallOf(k) = {}
    THEN \* no call: the raw-content fallback, or the entry of the loop's handler
         /\ Len(entry) >= 2
         /\ entry[2] = T(chunks[k].section)
         /\ entry[1] \in {T("SECCION -"), T("Error en chunk")}
    ELSE LET c == calls[CHOOSE j \in ExtractCallOf(k) : TRUE]
         IN  IF c.status = "raised"
             THEN entry = <<T("ERROR -"), T(chunks[k].section), T("No se pudo procesar")>>
             ELSE entry = <<T("ANALISIS -"), T(chunks[k].section)>> \o TextOf(c.value)

\* C7: the extraction calls are issued in chunk order, no call starts before
\* the one before it has returned or raised, the synthesis call starts only
\* when all N extractions are over, and the text it is given is the N
\* extraction outputs in chunk order, none reordered, merged or left out.
C7_Sequential ==
    /\ \A k \in 1..(Len(calls) - 1) : calls[k].status # "inflight"
    /\ \A j, k \in 1..Len(ExtractCalls) :
          j < k => ExtractCalls[j].idx < ExtractCalls[k].idx
    /\ \A k \in 1..Len(calls) :
          calls[k].phase = "extract" =>
             /\ Len(chunk_summaries) >= calls[k].idx - 1
             /\ (calls[k].status = "inflight") = (Len(chunk_summaries) = calls[k].idx - 1)
    /\ (~cbRaised) => \A k \in 1..Len(ExtractCalls) : ExtractCalls[k].idx = k
    /\ \A k \in 1..Len(calls) :
          calls[k].phase = "synthesis" =>
             /\ k = Len(calls)
             /\ Len(chunk_summaries) = Len(chunks)
             /\ (client.hasGenerate /\ ~cbRaised) => Len(ExtractCalls) = Len(chunks)
             /\ LET entries == Entries(calls[k].prompt.content)
                IN  /\ Len(entries) = Len(chunks)
                    /\ \A n \in 1..Len(chunks) : ExtractionOutputOk(n, entries[n])

\* A synthesis call over three chunks of which the last two are equal and got
\* equal answers.
C7_Witness ==
    /\ Len(chunks) = 3
    /\ chunks[2] = chunks[3]
    /\ chunks[1] # chunks[2]
    /\ Len(ExtractCalls) = 3
    /\ ExtractCalls[2].status = "returned"
    /\ ExtractCalls[3].status = "returned"
    /\ ExtractCalls[2].value = ExtractCalls[3].value
    /\ SynthesisCalls # <<>>

\* C8: a narrative result that the client returned (without raising) with
\* content beginning with the error marker is a failed attempt that is
\* retried: the run ends on such a result only when max_retries calls have
\* been made.
C8_ErrorMarkerRetried ==
    (/\ pc = "done"
     /\ task_type = "narrative"
     /\ Len(chunks) = 1
     /\ calls # <<>>
     /\ Last(calls).status = "returned"
     /\ StartsWithError(Last(calls).value))
    => Len(calls) >= max_retries

\* C9: at the end of an invocation the stats describe that invocation only:
\* errors holds the messages recorded during it, and the chunk and token
\* counters are those of this invocation (or zero when it did not get to
\* the update).
C9_StatsReset ==
    pc = "done" =>
        /\ processing_stats.errors = ErrorsAddedThisRun
        /\ processing_stats.chunks_processed \in {0, Len(chunks)}
        /\ processing_stats.total_tokens_processed \in {0, SumTokens(chunks)}

\* C10: every exception of a target-client call (single-chunk or synthesis)
\* caught during the run has appended a message to processing_stats.errors.
C10_TransientRecorded ==
    pc = "done" =>
        Len(ErrorsAddedThisRun) >=
            Cardinality({k \in 1..Len(calls) :
                            /\ calls[k].phase \in {"single", "synthesis"}
                            /\ calls[k].status = "raised"})

\* The progress messages of the orchestrator, by kind, and the positions of a
\* kind in the progress log.
ExtractNotes == SelectSeq(progress, LAMBDA n : n.msg = "Analizando chunk")
NotePositions(msg) == {k \in 1..Len(progress) : progress[k].msg = msg}

\* C11: in a multi-chunk run over N chunks the orchestrator emits the "chunk
\* i/N" messages once each with i = 1, 2, ..., each no later than the
\* extraction call of chunk i; the one synthesis message comes after all N of
\* them and no later than the synthesis call; the completion message is the
\* last message; a run whose two opening messages went through ends with N
\* extraction messages and one synthesis message.
C11_ProgressTrace ==
    Len(chunks) > 1 =>
        /\ Len(ExtractNotes) <= Len(chunks)
        /\ \A k \in 1..Len(ExtractNotes) :
              ExtractNotes[k].a = k /\ ExtractNotes[k].b = Len(chunks)
        /\ \A k \in 1..Len(calls) :
              /\ calls[k].phase = "extract" =>
                    /\ Len(ExtractNotes) = calls[k].idx \/ calls[k].status # "inflight"
                    /\ Len(ExtractNotes) >= calls[k].idx
                    /\ ~ExtractNotes[calls[k].idx].raised
              /\ calls[k].phase = "synthesis" =>
                    NotePositions("Sintetizando informacion consolidada") # {}
        /\ Cardinality(NotePositions("Sintetizando informacion consolidada")) <= 1
        /\ \A s \in NotePositions("Sintetizando informacion consolidada") :
              /\ Len(ExtractNotes) = Len(chunks)
              /\ \A e \in NotePositions("Analizando chunk") : e < s
        /\ \A c \in NotePositions("Procesamiento completado") : c = Len(progress)
        /\ (pc = "done" /\ Len(progress) >= 2
            /\ ~progress[1].raised /\ ~progress[2].raised) =>
              /\ Len(ExtractNotes) = Len(chunks)
              /\ Cardinality(NotePositions("Sintetizando informacion consolidada")) = 1

\* A finished run over three chunks in which the callback raised on the
\* message of chunk 2 and the completion message was emitted.
C11_Witness ==
    /\ pc = "done"
    /\ Len(chunks) = 3
    /\ Len(ExtractNotes) = 3
    /\ ExtractNotes[2].raised
    /\ ~ExtractNotes[3].raised
    /\ Len(calls) = 3
    /\ NotePositions("Procesamiento completado") = {Len(progress)}
    /\ ~Last(progress).raised

\* C12: once an abort has been requested during a run, the orchestrator
\* starts no further client call (neither the extraction of a next chunk nor
\* the synthesis).
C12_Cancellation == [][(~processing) => Len(calls') <= Len(calls)]_vars

\* The stretches of a text from its first to its last stretch of words.
Trimmed(text) ==
    LET inked == {k \in 1..Len(text) : text[k].w > 0}
    IN  IF inked = {} THEN <<>>
        ELSE SubSeq(text, CHOOSE k \in inked : \A j \in inked : k <= j,
                          CHOOSE k \in inked : \A j \in inked : j <= k)

NonBlank(text) == \E k \in 1..Len(text) : text[k].w > 0

\* C13: for a non-blank text whose estimate is at most max_tokens_per_chunk,
\* intelligent_chunk_tor returns exactly one chunk, with index 0 and the text
\* without its leading and trailing whitespace as content.
C13_ShortCircuit ==
    (/\ cpc = "returned"
     /\ NonBlank(tor_content)
     /\ estimate_tokens(tor_content) <= max_tokens_per_chunk)
    => /\ Len(tor_chunks) = 1
       /\ tor_chunks[1].index = 0
       /\ "index" \in tor_chunks[1].keys
       /\ tor_chunks[1].content = Trimmed(tor_content)

\* A document of two blocks with whitespace around it that fits the budget.
C13_Witness ==
    /\ cpc = "returned"
    /\ Len(tor_content) > 3
    /\ IsSpace(tor_content[1])
    /\ IsSpace(tor_content[Len(tor_content)])
    /\ \E k \in 1..Len(tor_content) : tor_content[k] = PAR
    /\ estimate_tokens(tor_content) <= max_tokens_per_chunk
    /\ Len(tor_chunks) = 1
    /\ tor_chunks[1].content # tor_content

\* Characters of a text that are not whitespace.
RECURSIVE InkChars(_)
InkChars(text) ==
    IF text = <<>> THEN 0
    ELSE (IF IsSpace(Head(text)) THEN 0 ELSE Head(text).n - (Head(text).w - 1))
         + InkChars(Tail(text))

RECURSIVE ChunksInk(_)
ChunksInk(cs) == IF cs = <<>> THEN 0 ELSE InkChars(Head(cs).content) + ChunksInk(Tail(cs))

\* C14: for a non-empty text and max_tokens at or above the minimum chunk
\* size no source text is dropped: the chunks returned hold, between them, at
\* least the non-whitespace characters of the document (overlap prefixes can
\* only add to them).
C14_Coverage ==
    (/\ cpc = "returned"
     /\ tor_content # <<>>
     /\ max_tokens_per_chunk >= MIN_CHUNK_SIZE)
    => ChunksInk(tor_chunks) >= InkChars(tor_content)

\* Chunks of the returned list whose content is within the budget.
WithinBudget ==
    {k \in 1..Len(tor_chunks) :
        estimate_tokens(tor_chunks[k].content) <= max_tokens_per_chunk}

\* C15: at least 95% of the chunks returned have an estimate of at most
\* max_tokens, and every chunk returned has an estimate below 2 * max_tokens.
C15_TokenBudget ==
    cpc = "returned" =>
        /\ 20 * Cardinality(WithinBudget) >= 19 * Len(tor_chunks)
        /\ \A k \in 1..Len(tor_chunks) :
              estimate_tokens(tor_chunks[k].content) < 2 * max_tokens_per_chunk

\* C16: every chunk returned has passed the validation gate and carries the
\* metadata of post-processing.
C16_ValidationGate ==
    cpc = "returned" =>
        \A k \in 1..Len(tor_chunks) :
            /\ Chars(Trimmed(tor_chunks[k].content)) >= MinContentChars
            /\ tor_chunks[k].tokens_estimated > 0
            /\ \E j \in 1..Len(tor_chunks[k].content) :
                  tor_chunks[k].content[j].t \in {"txt", "sent", "hdr", "sub", "err"}
            /\ {"index", "chunk_id", "word_count", "char_count"}
                  \subseteq tor_chunks[k].keys

\* C17: for the empty string and for a whitespace-only string
\* intelligent_chunk_tor returns the empty list, whatever max_tokens and
\* overlap_tokens are.
C17_BlankInput ==
    (cpc = "returned" /\ ~NonBlank(tor_content)) => tor_chunks = <<>>

\* A whitespace-only document of several characters.
C17_Witness ==
    /\ cpc = "returned"
    /\ Len(tor_content) > 1
    /\ ~NonBlank(tor_content)
    /\ tor_chunks = <<>>
    /\ overlap_tokens > 0

\* C18: a text that begins with the error marker yields no chunks.
C18_ErrorMarkedText ==
    (cpc = "returned" /\ tor_content # <<>> /\ tor_content[1].t = "err")
    => tor_chunks = <<>>

\* C20: the chunk_id of every chunk returned is the fingerprint of its
\* content field, so that chunks with equal content have equal ids.
C20_ChunkIdOfContent ==
    cpc = "returned" =>
        \A k \in 1..Len(tor_chunks) :
            tor_chunks[k].chunk_id = [md5 |-> tor_chunks[k].content]

\* C19: get_max_content_tokens returns max(floor(context_window * 0.75) -
\* overhead', 1000), with context_window 32000 for "deepseek", 200000 for
\* "sonnet", "claude" and "anthropic" in any letter case, 8000 for any other
\* name, and overhead' = min(prompt_overhead, 3000) for deepseek and
\* prompt_overhead otherwise; the result is at least 1000 and does not grow
\* with prompt_overhead.
C19_TokenBudgetModel ==
    lpc = "returned" =>
        LET window == IF provider.letters = "deepseek" THEN 32000
                      ELSE IF provider.letters \in {"sonnet", "claude", "anthropic"}
                      THEN 200000
                      ELSE 8000
            overhead == IF provider.letters = "deepseek" /\ prompt_overhead > 3000
                        THEN 3000 ELSE prompt_overhead
            expected == IF (window * 3) \div 4 - overhead > 1000
                        THEN (window * 3) \div 4 - overhead ELSE 1000
        IN  /\ max_content_tokens = expected
            /\ max_content_tokens >= 1000
            /\ \A more \in OverheadChoices :
                  more >= prompt_overhead =>
                     MaxContentTokens(provider, more) <= max_content_tokens

\* "DeepSeek" with an overhead above the cap.
C19_Witness ==
    /\ lpc = "returned"
    /\ provider.letters = "deepseek"
    /\ provider.caps # {}
    /\ prompt_overhead > 3000
    /\ max_content_tokens = 21000

\* C21: SonnetClient.generate_json always returns a dict: with a missing
\* key, a status other than 200, a timeout, a connection error or an
\* unparsable body the dict carries an "error" field, and for every response
\* text, also one that is valid JSON but no object, the value is a dict.
C21_StructuredTotality ==
    jpc = "returned" =>
        /\ json_result.type = "dict"
        /\ (~api_key \/ http_outcome # "ok") => json_result.error

\* The attempts of the retry loop that began, in order.
AttemptNotes ==
    SelectSeq(progress, LAMBDA n : n.msg = "Procesando chunk unico (intento)")

\* C22: in the single-chunk retry loop the worker waits 2^k seconds after the
\* failed attempt k (counted from zero) and before attempt k+1, exactly once
\* between two consecutive attempts, and neither after the final failed
\* attempt nor after a successful one; f < max_retries failures followed by
\* a success wait 2^f - 1 seconds in total.
C22_BackoffSchedule ==
    (Len(chunks) = 1 /\ pc # "idle") =>
        /\ \A k \in 1..Len(sleeps) : sleeps[k] = 2 ^ (k - 1)
        /\ Len(sleeps) = attempt
        /\ Len(AttemptNotes) \in {attempt, attempt + 1}
        /\ pc = "single_call" => Len(AttemptNotes) = attempt + 1
        /\ max_retries >= 1 => Len(sleeps) <= max_retries - 1
        /\ (calls # <<>> /\ Last(calls).status = "returned") =>
              /\ Len(sleeps) = Len(AttemptNotes) - 1
              /\ Len(sleeps) < max_retries
              /\ Elapsed(sleeps) = 2 ^ Len(sleeps) - 1
        /\ (pc = "done" /\ Len(AttemptNotes) = max_retries /\ max_retries >= 1) =>
              Len(sleeps) = max_retries - 1

\* Two attempts failed, in different ways, and the third succeeded: the worker
\* waited 1 and 2 seconds.
C22_Witness ==
    /\ pc = "done"
    /\ Len(chunks) = 1
    /\ max_retries = 3
    /\ Len(calls) = 2
    /\ calls[1].status = "raised"
    /\ calls[2].status = "returned"
    /\ AttemptNotes[2].raised
    /\ sleeps = <<1, 2>>
    /\ processing_stats.processing_time = 3

\* A client with generate_json and without generate.
StructuredOnly == ~client.hasGenerate /\ client.hasGenerateJson

\* The summary the claim describes: the section label, then the first 800
\* characters of the chunk's content.
RawSummaryOk(chunk, summary) ==
    /\ Len(summary) = Len(chunk.content) + 3
    /\ summary[1] = T("SECCION -")
    /\ summary[2] = T(chunk.section)
    /\ \A k \in 1..Len(chunk.content) :
          /\ summary[k + 2].t = chunk.content[k].t
          /\ summary[k + 2].n = Min(chunk.content[k].n, 800)

\* C23: with a client that has no generate method, the extraction of a chunk
\* makes no client call and yields a summary made of the section label and the
\* first 800 characters of the chunk's content; a multi-chunk budget run with
\* such a client makes exactly one client call, the generate_json synthesis
\* call, over the summaries of all chunks.
C23_ExtractionFallback ==
    (Len(chunks) >= 2 /\ StructuredOnly) =>
        /\ ExtractCalls = <<>>
        /\ \A k \in 1..Len(chunk_summaries) :
              ~ExtractNotes[k].raised => RawSummaryOk(chunks[k], chunk_summaries[k])
        /\ task_type = "budget" =>
              /\ Len(calls) <= 1
              /\ \A k \in 1..Len(calls) :
                    /\ calls[k].phase = "synthesis"
                    /\ calls[k].method = "generate_json"
                    /\ Len(chunk_summaries) = Len(chunks)
                    /\ calls[k].prompt.content = Join(chunk_summaries)
              /\ (pc \in {"synthesis", "synthesis_call"}) =>
                    Len(chunk_summaries) = Len(chunks)
              /\ (pc = "done" /\ ~cbRaised) =>
                    /\ Len(calls) = 1
                    /\ calls[1].status # "inflight"

\* A budget run over three chunks, one of them longer than 800 characters,
\* ended after its only call returned.
C23_Witness ==
    /\ pc = "done"
    /\ StructuredOnly
    /\ task_type = "budget"
    /\ Len(chunks) = 3
    /\ chunks[2] = ChunkB
    /\ ~cbRaised
    /\ Len(calls) = 1
    /\ calls[1].status = "returned"
    /\ Len(chunk_summaries) = 3

\* The last m sentences of a text, joined with single spaces.
RECURSIVE JoinSentences(_)
JoinSentences(ss) ==
    IF Len(ss) = 1 THEN ss[1] ELSE ss[1] \o <<SP>> \o JoinSentences(Tail(ss))
TrailingSentences(text, m) ==
    LET ss == Sentences(text)
    IN  JoinSentences(SubSeq(ss, Len(ss) - m + 1, Len(ss)))

HasPrefix(text, prefix) ==
    Len(text) >= Len(prefix) /\ SubSeq(text, 1, Len(prefix)) = prefix

\* Chunk k of the chunks that splitting produced carries an overlap, or has a
\* reason the claim accepts for carrying none: no trailing sentence of the
\* previous chunk fits into overlap_tokens, or the shortest overlap would
\* push the chunk over max_tokens.
OverlapOk(cs, k) ==
    LET prev == cs[k - 1].content
        cur == cs[k].content
        n == Len(Sentences(prev))
    IN  \/ estimate_tokens(TrailingSentences(prev, 1)) > overlap_tokens
        \/ \E m \in 1..n : HasPrefix(cur, TrailingSentences(prev, m) \o <<PAR>>)
        \/ estimate_tokens(TrailingSentences(prev, 1) \o <<PAR>> \o cur)
              > max_tokens_per_chunk

\* C24: every chunk produced by splitting that is not the first begins with
\* whole trailing sentences of the previous chunk that fit into
\* overlap_tokens, unless adding them would push the chunk over max_tokens;
\* this holds for every strategy, the sub-chunks of an oversized section and
\* the paragraph fallback included.
C24_Overlap ==
    (cpc \in {"post", "returned"} /\ overlap_tokens > 0) =>
        \A k \in 2..Len(chunker_chunks) : OverlapOk(chunker_chunks, k)

\* A text in which no section or subsection pattern matches, made of one
\* paragraph.
Unstructured(text) == \A k \in 1..Len(text) : text[k].t \notin {"hdr", "sub"}
OneParagraph(text) == Len(Paragraphs(text)) = 1

\* C25: a text over budget without structure that is one paragraph (or one
\* sentence or word) longer than max_tokens is returned as several
\* character windows of at most max_tokens * 4 characters, not as one
\* oversized chunk.
C25_FallbackChain ==
    (/\ cpc = "returned"
     /\ Unstructured(tor_content)
     /\ OneParagraph(tor_content)
     /\ estimate_tokens(tor_content) > max_tokens_per_chunk) =>
        /\ Len(tor_chunks) >= 2
        /\ \A k \in 1..Len(tor_chunks) :
              Chars(tor_chunks[k].content) <= max_tokens_per_chunk * AVG_CHARS_PER_TOKEN

\* The threads that are running _enhanced_generation_task.
GenerationWorkers ==
    {t \in 1..Len(threads) :
        threads[t].target = "_enhanced_generation_task" /\ is_alive(t)}

\* C26: through every sequence of wizard events at most one thread running
\* _enhanced_generation_task is alive, so that two runs never store
\* results.narrative / results.budget concurrently; after an abort the
\* generate button cannot start a second worker while the first is running.
C26_SingleWorker == Cardinality(GenerationWorkers) <= 1

\* A value made by _get_error_result.
IsErrorResult(v) ==
    \/ /\ v.type = "str"
       /\ Len(v.text) >= 2
       /\ v.text[1] = ErrorMarker
       /\ v.text[2] = T("generando narrativa:")
    \/ /\ v.type = "dict"
       /\ "error_type" \in v.keys

\* C27: whenever process_tor_chunks returns an error result (no chunks,
\* single-chunk retries exhausted, synthesis failure, critical error),
\* processing_stats.errors holds a message added during that invocation.
C27_FailureInStats ==
    (pc = "done" /\ IsErrorResult(result)) => Len(ErrorsAddedThisRun) >= 1

\* C28: the orchestrator calls the narrative client's generate with the same
\* argument list, the prompt only, on the single-chunk path, the extraction
\* path and the synthesis path.
C28_UniformCall ==
    \A k \in 1..Len(calls) : calls[k].method = "generate" => calls[k].nargs = 1

\* C29: a value obtained from get_processing_stats, or the processing_stats
\* inside a budget error result, is not changed by what the generator does
\* afterwards, and an append the caller makes to its errors list does not
\* change the generator's own processing_stats.
C29_SnapshotIsolation ==
    [][(snapshot.kind # "none" /\ snapshot' = snapshot) =>
          IF caller_notes' = caller_notes
          THEN SnapshotValue' = SnapshotValue
          ELSE processing_stats' = processing_stats]_vars

\* Chunks whose window ended at the end of the text.
TailChunks ==
    Cardinality({k \in 1..Len(window_ends) : window_ends[k] = Chars(tor_content)})

\* C30: every pass of a character-window loop that runs the loop body moves
\* start forward by at least one character, so that _character_chunk and
\* _character_chunk_text evaluate the loop condition at most len(text) + 1
\* times and return; and _character_chunk appends at most one chunk that
\* ends at the end of the text.
C30_SplittingTerminates ==
    [][window_passes' # window_passes =>
          /\ window_start < Chars(tor_content) => window_start' >= window_start + 1
          /\ window_passes' <= Chars(tor_content) + 1
          /\ cpc = "_character_chunk" => TailChunks' <= 1]_vars

====
